---- MODULE Spec2Model ----
(***************************************************************************)
(* s3fm: the navigation and focus engine.                                  *)
(*                                                                         *)
(* The module models the application object (focus, layout, key-binding    *)
(* mode), the key-binding table with its activation switch and action      *)
(* multiplier, the two file panes (file list, selection, viewport) and the *)
(* directory history (a size-limited ordered dictionary).                  *)
(*                                                                         *)
(* Python objects are records, methods are operators from records to       *)
(* records, and each action below is one complete handler.                 *)
(***************************************************************************)
EXTENDS Integers, Sequences, FiniteSets, TLC

(***************************************************************************)
(* Bounds of the model.                                                    *)
(***************************************************************************)
\* smallest and largest terminal (rows) the model resizes between
MinRows == 6
RowsSpan == 1
\* largest repeat count handed to scroll/page operations called directly
MaxCount == 2
\* largest value the action multiplier may accumulate to
MaxMultiplier == 24
\* the digit keys pressed are "0" .. MaxDigit
MaxDigit == 3
\* largest configured size limit of the directory history
MaxDirSize == 3
\* longest sequence of directory writes that is followed
MaxWrites == 4
\* how far the viewport may drift between two renders
MaxDrift == 1
\* navigations (forward, backword) followed in a behaviour
MaxNavs == 2
MaxSearches == 2
MaxFlights == 2
MaxSpins == 3
MaxPaneNavs == 3
\* largest number of bindings one action gets
MaxBindings == 3

(***************************************************************************)
(* Enumerations (src/s3fm/enums.py) and Python's None.                     *)
(***************************************************************************)
Pane == {"left", "right", "cmd", "error"}
LayoutMode == {"vertical", "horizontal", "single"}
KBMode == {"normal", "command", "error", "search"}
PaneMode == {"s3", "fs"}
Direction == {"up", "down", "left", "right"}

\* An Optional[int] is the empty tuple (None) or a one-element tuple.
None == <<>>
Some(n) == <<n>>
\* Python truthiness of an Optional[int]: None and 0 are false.
Truthy(m) == m # None /\ m[1] # 0

Min(a, b) == IF a < b THEN a ELSE b

\* The two FilePane objects built by App.__init__.
PaneObjs == {"P1", "P2"}

VARIABLES
    term_rows,   \* rows of the terminal (shutil.get_terminal_size)
    config,      \* the Config values the model reads
    app,         \* the App object
    kb,          \* the KB object
    panes,       \* the FilePane objects
    directory,   \* History._directory
    writes,      \* observation: the keys written to the directory, in order
    trip,        \* observation: the directory a pane entered a child from
    navs,        \* observation: the number of navigations made
    typed,       \* observation: the decimal value of the digits pressed since the last action
    cmd,         \* the CommandPane object and the search tasks it created
    flights,     \* the listing operations of the panes that are suspended at an await
    spinners,    \* the Spinner objects of the panes and the start() tasks created for them
    last         \* observation: the operation that ran last

vars == <<term_rows, config, app, kb, panes, directory, writes, trip, navs, typed, cmd, flights, spinners, last>>

(***************************************************************************)
(* Directory history: an OrderedDict with a size limit.  The dictionary is *)
(* the sequence of its items in iteration order (oldest first).            *)
(***************************************************************************)
DirKeys(d) == {d[i].key : i \in DOMAIN d}

\* dict.get(key, default)
Directory_get(d, key, default) ==
    IF key \in DirKeys(d)
    THEN (CHOOSE e \in {d[i] : i \in DOMAIN d} : e.key = key).value
    ELSE default

\* OrderedDict.move_to_end(key, last=True)
move_to_end(d, key) ==
    SelectSeq(d, LAMBDA e : e.key # key) \o SelectSeq(d, LAMBDA e : e.key = key)

\* OrderedDict.__setitem__: an existing key keeps its place, a new one is appended
OrderedDict_setitem(d, key, value) ==
    IF key \in DirKeys(d)
    THEN [i \in DOMAIN d |-> IF d[i].key = key THEN [key |-> key, value |-> value] ELSE d[i]]
    ELSE Append(d, [key |-> key, value |-> value])

\* Directory._check_size_limit: popitem(last=False) while too long
RECURSIVE _check_size_limit(_, _)
_check_size_limit(d, size_limit) ==
    IF Len(d) > size_limit THEN _check_size_limit(Tail(d), size_limit) ELSE d

\* Directory.__setitem__ without the reordering of a rewritten key
Directory_setitem_NoMove(d, size_limit, key, value) ==
    _check_size_limit(OrderedDict_setitem(d, key, value), size_limit)

\* Directory.__setitem__
Directory_setitem(d, size_limit, key, value) ==
    _check_size_limit(
        OrderedDict_setitem(IF key \in DirKeys(d) THEN move_to_end(d, key) ELSE d, key, value),
        size_limit)

\* History.__init__: Directory(size_limit=self._dir_max_size or 500)
SizeLimit == IF config.dir_max_size = 0 THEN 500 ELSE config.dir_max_size

(***************************************************************************)
(* The data sources.  A path is a string; what Path.joinpath, Path.parent  *)
(* and the listing calls compute is given by the tables of a small disk    *)
(* and a small S3 account.  An entry carries the path that joining its     *)
(* name to the listed path yields, and whether its name starts with ".".   *)
(***************************************************************************)
Entry(name, type, hidden, target) ==
    [name |-> name, type |-> type, hidden |-> hidden, target |-> target]

\* FS._list_files: the entries sorted by (is_file, name)
FS__list_files(path) ==
    CASE path = "/" ->
            << Entry(".c/", "dir", TRUE, "/.c"), Entry("a/", "dir", FALSE, "/a"),
               Entry(".k", "file", TRUE, ""), Entry("f", "file", FALSE, ""),
               Entry("g", "exe", FALSE, ""), Entry("h", "file", FALSE, "") >>
      [] path = "/a" ->
            << Entry("b/", "dir", FALSE, "/a/b"), Entry("l/", "dir_link", FALSE, "/a/b"),
               Entry("x", "file", FALSE, ""), Entry("z", "link", FALSE, "") >>
      [] path = "/a/b" -> << Entry("w", "file", FALSE, "") >>
      [] path = "" ->
            << Entry("b/", "dir", FALSE, "/a/b"), Entry("l/", "dir_link", FALSE, "/a/b"),
               Entry("x", "file", FALSE, ""), Entry("z", "link", FALSE, "") >>
      [] OTHER -> << >>

\* S3._list_buckets: the account's buckets
S3__list_buckets ==
    << Entry("bk/", "bucket", FALSE, "bk"), Entry(".b2/", "bucket", TRUE, ".b2") >>

\* S3._list_objects: the response's CommonPrefixes
S3__CommonPrefixes(path) ==
    CASE path = "bk" -> << Entry("p/", "dir", FALSE, "bk/p") >>
      [] OTHER -> << >>

\* S3._list_objects: the response's Contents
S3__Contents(path) ==
    CASE path = "bk" -> << Entry("o", "file", FALSE, ""), Entry("r", "file", FALSE, "") >>
      [] path = "bk/p" -> << Entry("q", "file", FALSE, "") >>
      [] OTHER -> << >>

\* Path.parent (resolved): the root is its own parent
Parent(path) ==
    CASE path = "/a" -> "/"
      [] path = "/.c" -> "/"
      [] path = "/a/b" -> "/a"
      [] path = "bk" -> "."
      [] path = ".b2" -> "."
      [] path = "bk/p" -> "bk"
      [] OTHER -> path

FsRoot == "/"
S3Root == "."
\* Path("").resolve(): the working directory of the process
FsCwd == "/a"

\* The File dataclass; index is the position in the unfiltered listing (from 0).
File(name, type, hidden, index, target) ==
    [name |-> name, type |-> type, hidden |-> hidden, index |-> index, target |-> target]

DotDot == File("..", "dir", FALSE, 0, "..")

\* the File records of the entries, numbered from offset
Records(entries, offset) ==
    [i \in DOMAIN entries |->
        File(entries[i].name, entries[i].type, entries[i].hidden, i - 1 + offset,
             entries[i].target)]

\* FS.get_paths
FS_get_paths(path) ==
    IF path # FsRoot
    THEN <<DotDot>> \o Records(FS__list_files(path), 1)
    ELSE Records(FS__list_files(path), 0)

\* S3._get_objects: each of the two loops numbers its records from offset
S3__get_objects(path, offset) ==
    Records(S3__CommonPrefixes(path), offset) \o Records(S3__Contents(path), offset)

\* S3.get_paths
S3_get_paths(path) ==
    IF path = S3Root
    THEN Records(S3__list_buckets, 0)
    ELSE <<DotDot>> \o S3__get_objects(path, 1)

\* the path after FS.cd(path) / S3.cd(path) on the record `file`
CdTarget(path, file) == IF file.name = ".." THEN Parent(path) ELSE file.target

(***************************************************************************)
(* FilePane (src/s3fm/ui/filepane.py).                                     *)
(***************************************************************************)
\* FilePane.file_count
file_count(f) == Len(f.filtered_files)

\* FilePane.path of the pane's current mode
PanePath(f) == IF f.mode = "s3" THEN f.s3_path ELSE f.fs_path

\* FilePane._get_height; border is off, so _dimension_offset is 0
_get_height(id, layout_mode, rows) ==
    IF layout_mode \in {"vertical", "single"}
    THEN rows - 2
    ELSE IF id = "left"
         THEN ((rows - 1) + 1) \div 2 - 1
         ELSE (rows - 1) \div 2 - 1

\* FilePane.__init__ (the layout is vertical when the panes are built)
FilePane_init(pane_id, rows) ==
    [ id |-> pane_id,
      mode |-> "s3",
      fs_path |-> FsCwd,
      s3_path |-> S3Root,
      loaded |-> FALSE,
      files |-> << >>,
      filtered_files |-> << >>,
      loading |-> TRUE,
      selected_file_index |-> 0,
      display_hidden |-> TRUE,
      searched_indices |-> None,
      first_line |-> 0,
      last_line |-> _get_height(pane_id, "vertical", rows) ]

\* FilePane.filter_files
filter_files(f) ==
    [f EXCEPT !.filtered_files =
        IF f.display_hidden THEN f.files ELSE SelectSeq(f.files, LAMBDA x : ~x.hidden)]

\* FilePane.current_selection: None on IndexError; a negative index counts
\* from the end of the list
current_selection(f) ==
    LET n == file_count(f)
        i == f.selected_file_index
        pos == IF i < 0 THEN n + i ELSE i
    IN  IF pos < 0 \/ pos >= n
        THEN None
        ELSE LET k == f.filtered_files[pos + 1].index
             IN  IF k >= Len(f.files) THEN None ELSE Some(f.files[k + 1])

\* FilePane._get_formatted_files that anchors the window at the selection
\* on every call
_get_formatted_files_FromScratch(f, height) ==
    IF file_count(f) = 0
    THEN f
    ELSE
    LET fc == file_count(f)
        m == Min(fc, height)
        sel == IF f.selected_file_index < 0 THEN 0
               ELSE IF f.selected_file_index >= fc THEN fc - 1
               ELSE f.selected_file_index
        w2 == [first |-> sel, last |-> sel + m]
        w3 == IF w2.last > fc THEN [first |-> fc - m, last |-> fc] ELSE w2
    IN  [f EXCEPT !.selected_file_index = sel, !.first_line = w3.first, !.last_line = w3.last]

\* FilePane._get_formatted_files: the viewport recompute (the rows returned
\* are first_line .. last_line - 1 of the filtered list)
_get_formatted_files(f, height) ==
    IF file_count(f) = 0
    THEN f
    ELSE
    LET fc == file_count(f)
        m == Min(fc, height)
        sel == IF f.selected_file_index < 0 THEN 0
               ELSE IF f.selected_file_index >= fc THEN fc - 1
               ELSE f.selected_file_index
        \* window smaller than min(file_count, height)
        w1 == IF f.last_line - f.first_line < m
              THEN [first |-> m - m, last |-> m]
              ELSE [first |-> f.first_line, last |-> f.last_line]
        \* selection at or before the first line, or at or after the last
        w2 == IF sel <= w1.first
              THEN [first |-> sel, last |-> sel + m]
              ELSE IF sel >= w1.last
                   THEN [first |-> sel + 1 - m, last |-> sel + 1]
                   ELSE w1
        w3 == IF w2.last > fc THEN [first |-> fc - m, last |-> fc] ELSE w2
        w4 == IF w3.first < 0 THEN [first |-> 0, last |-> m] ELSE w3
    IN  [f EXCEPT !.selected_file_index = sel, !.first_line = w4.first, !.last_line = w4.last]

\* the count scroll_down/scroll_up move by
ScrollStep(height, value, page) == IF page THEN height \div 2 ELSE value

\* scroll_down/scroll_up raise ZeroDivisionError: cyclic step on an empty list
scroll_raises(f, height, cycle, value, page, edge) ==
    ~edge /\ cycle /\ ScrollStep(height, value, page) = 1 /\ file_count(f) = 0

\* FilePane.scroll_down
scroll_down(f, height, cycle, value, page, bottom) ==
    IF bottom THEN [f EXCEPT !.selected_file_index = file_count(f) - 1]
    ELSE IF scroll_raises(f, height, cycle, value, page, bottom) THEN f
    ELSE LET v == ScrollStep(height, value, page)
         IN  IF cycle /\ v = 1
             THEN [f EXCEPT !.selected_file_index = (@ + 1) % file_count(f)]
             ELSE [f EXCEPT !.selected_file_index =
                      IF @ + v >= file_count(f) THEN file_count(f) - 1 ELSE @ + v]

\* FilePane.scroll_up without the lower clamp
scroll_up_NoClamp(f, height, cycle, value, page, top) ==
    IF top THEN [f EXCEPT !.selected_file_index = 0]
    ELSE IF scroll_raises(f, height, cycle, value, page, top) THEN f
    ELSE LET v == ScrollStep(height, value, page)
         IN  IF cycle /\ v = 1
             THEN [f EXCEPT !.selected_file_index = (@ - 1) % file_count(f)]
             ELSE [f EXCEPT !.selected_file_index = @ - v]

\* FilePane.scroll_up
scroll_up(f, height, cycle, value, page, top) ==
    IF top THEN [f EXCEPT !.selected_file_index = 0]
    ELSE IF scroll_raises(f, height, cycle, value, page, top) THEN f
    ELSE LET v == ScrollStep(height, value, page)
         IN  IF cycle /\ v = 1
             THEN [f EXCEPT !.selected_file_index = (@ - 1) % file_count(f)]
             ELSE [f EXCEPT !.selected_file_index = IF @ - v < 0 THEN 0 ELSE @ - v]

\* FilePane.page_up
page_up(f, value) ==
    IF f.selected_file_index - value < 0
    THEN [f EXCEPT !.selected_file_index = 0]
    ELSE [f EXCEPT !.first_line = @ - value, !.last_line = @ - value,
                   !.selected_file_index = @ - value]

\* FilePane.page_down
page_down(f, value) ==
    IF f.selected_file_index + value >= file_count(f)
    THEN [f EXCEPT !.selected_file_index = file_count(f) - 1]
    ELSE [f EXCEPT !.first_line = @ + value, !.last_line = @ + value,
                   !.selected_file_index = @ + value]

\* the listing call of the pane's current mode, and the default path of load_data
get_paths(f) == IF f.mode = "s3" THEN S3_get_paths(f.s3_path) ELSE FS_get_paths(f.fs_path)
WithPath(f, path) == IF f.mode = "s3" THEN [f EXCEPT !.s3_path = path] ELSE [f EXCEPT !.fs_path = path]
DefaultPath(f) == IF f.mode = "s3" THEN S3Root ELSE FsCwd

\* What an operation that awaits the data source leaves behind: the pane, whether
\* it called set_error, and whether an exception left the operation.
Result(f, notified, raised) == [pane |-> f, notified |-> notified, raised |-> raised]

\* FilePane.load_data under spin_spinner; ok1 and ok2 say whether the first and the
\* second listing call return (TRUE) or raise (FALSE)
load_data(f, ok1, ok2) ==
    LET f0 == [f EXCEPT !.files = << >>]
    IN  IF ok1
        THEN Result([filter_files([f0 EXCEPT !.files = get_paths(f0)])
                        EXCEPT !.loaded = TRUE, !.loading = FALSE], FALSE, FALSE)
        ELSE LET f1 == WithPath(f0, DefaultPath(f0))
             IN  IF ok2
                 THEN Result([filter_files([f1 EXCEPT !.files = get_paths(f1)])
                                 EXCEPT !.loaded = TRUE, !.loading = FALSE], TRUE, FALSE)
                 ELSE Result([f1 EXCEPT !.loading = FALSE], TRUE, TRUE)

\* `value or not flag` for an Optional[bool] value
OrNot(value, flag) == IF value # None /\ value[1] THEN TRUE ELSE ~flag

\* FilePane.pane_toggle_hidden_files / App.pane_toggle_hidden_files on the pane
pane_toggle_hidden_files(f, value) ==
    [filter_files([f EXCEPT !.display_hidden = OrNot(value, @)]) EXCEPT !.loading = FALSE]

\* FilePane.pane_switch_mode / App.pane_switch_mode on the pane; mode is None or a PaneMode
pane_switch_mode(f, mode, ok1, ok2) ==
    LET f0 == [f EXCEPT !.mode = IF mode # None THEN mode[1]
                                 ELSE IF @ = "fs" THEN "s3" ELSE "fs"]
        r == load_data(f0, ok1, ok2)
    IN  IF r.raised THEN r
        ELSE Result([r.pane EXCEPT !.selected_file_index = 0], r.notified, FALSE)

(***************************************************************************)
(* Navigation: forward, backword and the hist_dir decorator.               *)
(***************************************************************************)
\* how a cd of the local adapter ends: it returns, the target turns out not to
\* be a directory (raised before the path is assigned), or the listing raises
\* (after the path is assigned)
Outcome == {"ok", "notdir", "list"}

\* the directory that Path(path) names for FS.cd (taken as it is or joined to
\* base, then resolved), None when neither is a directory of the disk
FS__is_dir(base, path) ==
    IF path = "." THEN Some(base)
    ELSE IF path \in {"/", "/a", "/a/b", "/.c"} THEN Some(path)
    ELSE None

\* FS.cd(path): target is the resolved directory or None
FS_cd(f, target, how) ==
    IF target = None \/ how = "notdir"
    THEN [pane |-> f, raised |-> TRUE]
    ELSE IF how = "list"
         THEN [pane |-> [f EXCEPT !.fs_path = target[1]], raised |-> TRUE]
         ELSE [pane |-> [f EXCEPT !.fs_path = target[1], !.files = FS_get_paths(target[1])],
               raised |-> FALSE]

\* S3.cd(path): the path is assigned before the listing call
S3_cd(f, target, how) ==
    IF how # "ok"
    THEN [pane |-> [f EXCEPT !.s3_path = target], raised |-> TRUE]
    ELSE [pane |-> [f EXCEPT !.s3_path = target, !.files = S3_get_paths(target)],
          raised |-> FALSE]

\* spin_spinner's finally clause
Spun(f) == [f EXCEPT !.loading = FALSE]

\* FilePane.forward: the name it hands to the cd of the pane's data source,
\* None when it calls neither FS.cd nor S3.cd
forward_cd(f) ==
    LET cs == current_selection(f)
    IN  IF cs = None THEN None
        ELSE IF \/ f.mode = "fs" /\ cs[1].type = "dir"
                \/ f.mode = "s3" /\ cs[1].type \in {"dir", "bucket"}
             THEN Some(cs[1].name)
             ELSE None

\* FilePane.forward under spin_spinner and file_action; how1 is the outcome of
\* the descend, how2 that of the re-listing in the except branch
forward(f, how1, how2) ==
    LET cs == current_selection(f)
        current_path == PanePath(f)
    IN  IF cs = None
        THEN Result(Spun(f), FALSE, FALSE)
        ELSE IF forward_cd(f) # None
        THEN LET r1 == IF f.mode = "fs"
                       THEN FS_cd(f, Some(CdTarget(f.fs_path, cs[1])), how1)
                       ELSE S3_cd(f, CdTarget(f.s3_path, cs[1]), how1)
             IN  IF ~r1.raised
                 THEN Result(Spun(filter_files(r1.pane)), FALSE, FALSE)
                 ELSE LET r2 == FS_cd(r1.pane, FS__is_dir(r1.pane.fs_path, current_path), how2)
                      IN  IF ~r2.raised
                          THEN Result(Spun(filter_files(r2.pane)), TRUE, FALSE)
                          ELSE Result(Spun(r2.pane), TRUE, TRUE)
        ELSE Result(Spun(filter_files(f)), FALSE, FALSE)

\* FilePane.backword under spin_spinner
backword(f, how) ==
    LET r == IF f.mode = "fs"
             THEN FS_cd(f, Some(Parent(f.fs_path)), IF how = "ok" THEN "ok" ELSE "list")
             ELSE S3_cd(f, Parent(f.s3_path), how)
    IN  IF r.raised
        THEN Result(Spun(r.pane), FALSE, TRUE)
        ELSE Result(Spun(filter_files(r.pane)), FALSE, FALSE)

\* hist_dir without the write of the outgoing path's index
hist_dir_NoRecord(f, d, size_limit, r) ==
    [pane |-> IF r.raised \/ PanePath(r.pane) = PanePath(f) THEN r.pane
              ELSE [r.pane EXCEPT !.selected_file_index = Directory_get(d, PanePath(r.pane), 0)],
     directory |-> d, notified |-> r.notified, raised |-> r.raised]

\* hist_dir without the assignment of the new path's index to the selection
hist_dir_NoRestore(f, d, size_limit, r) ==
    LET curr_path == PanePath(f)
        curr_result == Directory_get(d, curr_path, 0)
        d1 == Directory_setitem(d, size_limit, curr_path, f.selected_file_index)
    IN  IF r.raised
        THEN [pane |-> r.pane, directory |-> d1, notified |-> r.notified, raised |-> TRUE]
        ELSE IF PanePath(r.pane) = curr_path
        THEN [pane |-> r.pane,
              directory |-> Directory_setitem(d1, size_limit, curr_path, curr_result),
              notified |-> r.notified, raised |-> FALSE]
        ELSE [pane |-> r.pane, directory |-> d1, notified |-> r.notified, raised |-> FALSE]

\* hist_dir.executable around a navigation of pane f whose outcome is r; d is
\* the directory
hist_dir(f, d, size_limit, r) ==
    LET curr_path == PanePath(f)
        curr_result == Directory_get(d, curr_path, 0)
        d1 == Directory_setitem(d, size_limit, curr_path, f.selected_file_index)
        new_path == PanePath(r.pane)
    IN  IF r.raised
        THEN [pane |-> r.pane, directory |-> d1,
              notified |-> r.notified, raised |-> TRUE]
        ELSE IF new_path = curr_path
        THEN [pane |-> r.pane,
              directory |-> Directory_setitem(d1, size_limit, curr_path, curr_result),
              notified |-> r.notified, raised |-> FALSE]
        ELSE [pane |-> [r.pane EXCEPT !.selected_file_index = Directory_get(d1, new_path, 0)],
              directory |-> d1,
              notified |-> r.notified, raised |-> FALSE]

(***************************************************************************)
(* App (src/s3fm/app.py).                                                  *)
(***************************************************************************)
\* App.__init__
App_init ==
    [ rendered |-> FALSE,
      layout_mode |-> "vertical",
      current_focus |-> "left",
      previous_focus |-> "None",
      filepane_focus |-> "left",
      kb_mode |-> "normal",
      error |-> "",
      error_type |-> "ERROR",
      left_pane |-> "P1",
      right_pane |-> "P2",
      exited |-> FALSE,
      load_tasks |-> {} ]

\* App.filepanes
filepanes(a) == [left |-> a.left_pane, right |-> a.right_pane]

\* App.current_filepane
current_filepane(a) == filepanes(a)[a.filepane_focus]

\* App.set_error keeping the dispatch mode when it is given a notification
set_error_KeepMode(a, exception) ==
    IF exception = None
    THEN [a EXCEPT !.kb_mode = "normal", !.error = ""]
    ELSE [a EXCEPT !.error = exception[1].message, !.error_type = exception[1].type]

\* App.set_error; exception is None or a notification [message, type]
set_error(a, exception) ==
    IF exception = None
    THEN [a EXCEPT !.kb_mode = "normal", !.error = ""]
    ELSE [a EXCEPT !.kb_mode = "error", !.error = exception[1].message,
                   !.error_type = exception[1].type]

Notification(message, type) == Some([message |-> message, type |-> type])

\* App.pane_focus without the assignment to self._filepane_focus
pane_focus_NoCursor(a, pane) ==
    LET a1 == IF pane \in DOMAIN filepanes(a)
              THEN [a EXCEPT !.kb_mode = "normal"]
              ELSE [a EXCEPT !.kb_mode = "command"]
    IN  [a1 EXCEPT !.previous_focus = a1.current_focus, !.current_focus = pane]

\* App.pane_focus up to its call of self._app.layout.focus
pane_focus_set(a, pane) ==
    LET a1 == IF pane \in DOMAIN filepanes(a)
              THEN [a EXCEPT !.kb_mode = "normal", !.filepane_focus = pane]
              ELSE [a EXCEPT !.kb_mode = "command"]
    IN  [a1 EXCEPT !.previous_focus = a1.current_focus, !.current_focus = pane]

\* App.current_focus that reports an unknown focus and keeps it
current_focus_NoReset(a) ==
    IF a.current_focus \in Pane
    THEN a
    ELSE set_error(a, Notification("Unexpected focus.", "WARNING"))

\* App.current_focus (the property): the application after the lookup; an
\* unknown focus (KeyError) is reported and replaced by pane_focus(Pane.left)
current_focus(a) ==
    IF a.current_focus \in Pane
    THEN a
    ELSE pane_focus_set(set_error(a, Notification("Unexpected focus.", "WARNING")), "left")

\* App.pane_focus
pane_focus(a, pane) == current_focus(pane_focus_set(a, pane))

\* App.layout (the property): the application after the lookup
App_layout(a) ==
    IF a.layout_mode \in LayoutMode
    THEN a
    ELSE set_error([a EXCEPT !.layout_mode = "vertical"],
                   Notification("Unexpected layout.", "WARNING"))

\* App.layout_switch
layout_switch(a, layout) ==
    LET a1 == [a EXCEPT !.layout_mode = layout]
    IN  IF layout # "single"
        THEN LET a2 == App_layout(a1) IN pane_focus(a2, a2.current_focus)
        ELSE a1

\* App.pane_focus_other without the test of the single layout
pane_focus_other_NoGuard(a) ==
    pane_focus(a, IF a.current_focus = "right" THEN "left" ELSE "right")

\* App.pane_focus_other
pane_focus_other(a) ==
    IF a.layout_mode # "single"
    THEN pane_focus(a, IF a.current_focus = "right" THEN "left" ELSE "right")
    ELSE a

\* App.cmd_focus
cmd_focus(a) == pane_focus(a, "cmd")

\* App.cmd_exit: `self._previous_focus or Pane.left`
cmd_exit(a) == pane_focus(a, IF a.previous_focus = "None" THEN "left" ELSE a.previous_focus)

\* App.exit: the application stops
exit(a) == [a EXCEPT !.exited = TRUE]

\* the two focus/direction tests of App.pane_swap
AtRightEdge(a, direction) == a.current_focus = "right" /\ direction \in {"right", "down"}
AtLeftEdge(a, direction) == a.current_focus = "left" /\ direction \in {"left", "up"}

\* App.pane_swap past its three early returns; ps are the pane objects
pane_swap_body(a, ps, direction, layout) ==
    LET pane_swapped == /\ ~(AtRightEdge(a, direction) /\ a.layout_mode # layout)
                        /\ ~(AtLeftEdge(a, direction) /\ a.layout_mode # layout)
        a1 == IF pane_swapped
              THEN [a EXCEPT !.left_pane = a.right_pane, !.right_pane = a.left_pane]
              ELSE a
        ps1 == IF pane_swapped
               THEN [ps EXCEPT ![a1.left_pane].id = ps[a1.right_pane].id,
                               ![a1.right_pane].id = ps[a1.left_pane].id]
               ELSE ps
        a2 == [a1 EXCEPT !.layout_mode = layout]
    IN  [app |-> IF pane_swapped THEN pane_focus_other(a2) ELSE pane_focus(a2, a2.current_focus),
         panes |-> ps1]

\* App.pane_swap without its early returns
pane_swap_NoReturn(a, ps, direction, layout) == pane_swap_body(a, ps, direction, layout)

\* App.pane_swap
pane_swap(a, ps, direction, layout) ==
    IF a.layout_mode = "single"
    THEN [app |-> a, panes |-> ps]
    ELSE IF AtRightEdge(a, direction) /\ a.layout_mode = layout
    THEN [app |-> a, panes |-> ps]
    ELSE IF AtLeftEdge(a, direction) /\ a.layout_mode = layout
    THEN [app |-> a, panes |-> ps]
    ELSE pane_swap_body(a, ps, direction, layout)

\* KB._swap_pane
_swap_pane(a, ps, direction) ==
    IF direction \in {"down", "up"}
    THEN pane_swap(a, ps, direction, "horizontal")
    ELSE pane_swap(a, ps, direction, "vertical")

\* KBConfig.__init__: the keys bound to each built-in action name, per mode
KBConfig__kb_maps ==
    [normal |->
        [exit |-> <<"c-c", "q">>, focus_pane |-> <<"tab">>, focus_cmd |-> <<":">>,
         layout_vertical |-> <<"c-w v">>, layout_horizontal |-> <<"c-w s">>,
         layout_single |-> <<"c-w o">>, pane_swap_down |-> <<"c-w J">>,
         pane_swap_up |-> <<"c-w K">>, pane_swap_left |-> <<"c-w H">>,
         pane_swap_right |-> <<"c-w L">>, scroll_down |-> <<"j">>,
         scroll_up |-> <<"k">>, scroll_page_down |-> <<"c-d">>,
         scroll_page_up |-> <<"c-u">>, scroll_top |-> <<"g g">>,
         scroll_bottom |-> <<"G">>, page_up |-> <<"c-y">>, page_down |-> <<"c-e">>,
         forward |-> <<"l", "enter">>, backword |-> <<"h">>,
         toggle_pane_hidden_files |-> <<"z">>],
     command |-> [exit |-> <<"c-c", "escape">>]]

\* KBConfig.__init__
KBConfig_init ==
    [kb_maps |-> KBConfig__kb_maps,
     custom_kb_maps |-> [normal |-> << >>, command |-> << >>],
     custom_kb_lookup |-> [normal |-> << >>, command |-> << >>]]

\* the callables a configuration passes as custom actions
Callables == {"<kb1>"}

\* isinstance(action, str)
IsStr(action) == action \notin Callables

\* dict.pop(key, None)
Pop(d, key) == [x \in DOMAIN d \ {key} |-> d[x]]

\* d[key] = value on a dict
Put(d, key, value) == [x \in DOMAIN d \cup {key} |-> IF x = key THEN value ELSE d[x]]

\* KBConfig.map: the configuration after the call and whether it raised ClientError
KBConfig_map(k, action, keys, mode) ==
    IF IsStr(action)
    THEN IF action \in DOMAIN k.kb_maps[mode]
         THEN [kb |-> [k EXCEPT !.kb_maps[mode][action] = Append(@, keys)],
               raised |-> FALSE]
         ELSE [kb |-> k, raised |-> TRUE]
    ELSE IF action \in DOMAIN k.custom_kb_maps[mode]
         THEN [kb |-> [k EXCEPT !.custom_kb_maps[mode][action] = Append(@, keys)],
               raised |-> FALSE]
         ELSE [kb |-> [k EXCEPT !.custom_kb_maps[mode] = Put(@, action, <<keys>>),
                                !.custom_kb_lookup[mode] = Put(@, action, action)],
               raised |-> FALSE]

\* KBConfig.unmap: the configuration after the call and whether it raised ClientError
KBConfig_unmap(k, action, mode) ==
    IF IsStr(action)
    THEN [kb |-> [k EXCEPT !.kb_maps[mode] = Pop(@, action)], raised |-> FALSE]
    ELSE [kb |-> [k EXCEPT !.custom_kb_maps[mode] = Pop(@, action),
                           !.custom_kb_lookup[mode] = Pop(@, action)],
          raised |-> FALSE]

\* KB.__init__
KB_init == [activated |-> FALSE, action_multiplier |-> None]

(***************************************************************************)
(* KB (src/s3fm/api/kb.py): bindings, dispatch and the built-in actions.   *)
(***************************************************************************)
DigitChars == <<"0", "1", "2", "3", "4", "5", "6", "7", "8", "9">>

\* str(n) for n >= 0: the decimal digits of n, most significant first
RECURSIVE str(_)
str(n) == IF n < 10 THEN <<DigitChars[n + 1]>> ELSE Append(str(n \div 10), DigitChars[(n % 10) + 1])

\* int(s) for a sequence of digit characters
RECURSIVE int(_)
int(s) ==
    IF s = << >> THEN 0
    ELSE 10 * int(SubSeq(s, 1, Len(s) - 1))
            + (CHOOSE d \in 0 .. 9 : DigitChars[d + 1] = s[Len(s)])

\* KB._pane_set_action_multiplier with the key of the event
_pane_set_action_multiplier(k, key_num) ==
    IF ~Truthy(k.action_multiplier)
    THEN [k EXCEPT !.action_multiplier = Some(int(<<key_num>>))]
    ELSE [k EXCEPT !.action_multiplier = Some(int(str(k.action_multiplier[1]) \o <<key_num>>))]

Binding(keys, mode, action, raw) ==
    [keys |-> keys, mode |-> mode, action |-> action, raw |-> raw]

\* the digit keys pressed
DigitKeys == {DigitChars[d + 1] : d \in 0 .. MaxDigit}

\* The bindings KB.__init__ registers, in the order of registration: the
\* error, normal and command maps, then the digit keys.
Bindings ==
    << Binding("c-c", "error", "exit", FALSE),
       Binding("c-c", "normal", "exit", FALSE),
       Binding(":", "normal", "cmd_focus", FALSE),
       Binding("tab", "normal", "pane_focus", FALSE),
       Binding("c-w v", "normal", "layout_vertical", FALSE),
       Binding("c-w s", "normal", "layout_horizontal", FALSE),
       Binding("c-w o", "normal", "layout_single", FALSE),
       Binding("c-w J", "normal", "pane_swap_down", FALSE),
       Binding("c-w K", "normal", "pane_swap_up", FALSE),
       Binding("c-w H", "normal", "pane_swap_left", FALSE),
       Binding("c-w L", "normal", "pane_swap_right", FALSE),
       Binding("j", "normal", "pane_scroll_down", FALSE),
       Binding("k", "normal", "pane_scroll_up", FALSE),
       Binding("c-y", "normal", "pane_page_up", FALSE),
       Binding("c-e", "normal", "pane_page_down", FALSE),
       Binding("l", "normal", "pane_forward", FALSE),
       Binding("h", "normal", "pane_backword", FALSE),
       Binding("c-c", "command", "exit", FALSE),
       Binding("escape", "command", "exit", FALSE) >>
    \o [d \in 1 .. (MaxDigit + 1) |->
            Binding(DigitChars[d], "normal", "pane_set_action_multiplier", TRUE)]

BoundKeys == {Bindings[i].keys : i \in DOMAIN Bindings}

\* the keys of the bindings that enter and leave a directory
NavKeys == {"l", "h"}

\* the keys of the page-shift bindings
PageKeys == {"c-y", "c-e"}

\* the keys of the bindings that move within a pane, with those that leave and enter modes
ScrollKeys == {"c-c", ":", "c-w s", "j", "k", "escape"} \cup DigitKeys

\* the keys of the bindings that move the focus, the layout and the panes
FocusKeys == BoundKeys \ ({"j", "k"} \cup PageKeys \cup NavKeys \cup DigitKeys)

\* the filter KB.add gives a binding of `mode` (self._mode[mode]) without the
\* mode condition
ModeFilter_Always(a, mode) == TRUE

\* the filter KB.add gives a binding of `mode`: filter & self._mode[mode]
ModeFilter(a, mode) == a.kb_mode = mode

\* the handler the key processor calls for `keys`: the last registered binding
\* of the keys whose filter holds, None when there is none
Handler(a, keys) ==
    LET m == {i \in DOMAIN Bindings : Bindings[i].keys = keys /\ ModeFilter(a, Bindings[i].mode)}
    IN  IF m = {} THEN None ELSE Some(Bindings[CHOOSE i \in m : \A j \in m : j <= i])

\* what a bound function leaves: app, kb and panes, whether it raised, and the
\* pane call it made (None when it made none)
Ran(a, k, ps, raised, call) ==
    [app |-> a, kb |-> k, panes |-> ps, raised |-> raised, call |-> call]

\* KB._pane_scroll_down / KB._pane_scroll_up on the current file pane
_pane_scroll(a, k, ps, rows, cycle, down) ==
    LET value == IF Truthy(k.action_multiplier) THEN k.action_multiplier[1] ELSE 1
        o == current_filepane(a)
        height == _get_height(ps[o].id, a.layout_mode, rows)
    IN  Ran(a, k,
            [ps EXCEPT ![o] = IF down THEN scroll_down(@, height, cycle, value, FALSE, FALSE)
                              ELSE scroll_up(@, height, cycle, value, FALSE, FALSE)],
            scroll_raises(ps[o], height, cycle, value, FALSE, FALSE),
            Some([fn |-> IF down THEN "scroll_down" ELSE "scroll_up", pane |-> o, value |-> value]))

\* KB._pane_page_down / KB._pane_page_up on the current file pane: page_down()
\* and page_up() are called without arguments
_pane_page(a, k, ps, down) ==
    LET o == current_filepane(a)
    IN  Ran(a, k, [ps EXCEPT ![o] = IF down THEN page_down(@, 1) ELSE page_up(@, 1)],
            FALSE,
            Some([fn |-> IF down THEN "page_down" ELSE "page_up", pane |-> o, value |-> 1]))

\* a key-bound pane swap: the application and panes KB._swap_pane leaves
SwapRan(r, k) == Ran(r.app, k, r.panes, FALSE, None)

\* the function _factory binds: self._kb_lookup[mode][action] with its arguments
KeyAction(b, a, k, ps, rows, cycle) ==
    CASE b.action = "exit" /\ b.mode = "normal" -> Ran(exit(a), k, ps, FALSE, None)
      [] b.action = "exit" /\ b.mode = "command" -> Ran(cmd_exit(a), k, ps, FALSE, None)
      [] b.action = "exit" /\ b.mode = "error" -> Ran(set_error(a, None), k, ps, FALSE, None)
      [] b.action = "cmd_focus" -> Ran(cmd_focus(a), k, ps, FALSE, None)
      [] b.action = "pane_focus" -> Ran(pane_focus_other(a), k, ps, FALSE, None)
      [] b.action = "layout_vertical" -> Ran(layout_switch(a, "vertical"), k, ps, FALSE, None)
      [] b.action = "layout_horizontal" -> Ran(layout_switch(a, "horizontal"), k, ps, FALSE, None)
      [] b.action = "layout_single" -> Ran(layout_switch(a, "single"), k, ps, FALSE, None)
      [] b.action = "pane_swap_down" -> SwapRan(_swap_pane(a, ps, "down"), k)
      [] b.action = "pane_swap_up" -> SwapRan(_swap_pane(a, ps, "up"), k)
      [] b.action = "pane_swap_left" -> SwapRan(_swap_pane(a, ps, "left"), k)
      [] b.action = "pane_swap_right" -> SwapRan(_swap_pane(a, ps, "right"), k)
      [] b.action = "pane_scroll_down" -> _pane_scroll(a, k, ps, rows, cycle, TRUE)
      [] b.action = "pane_scroll_up" -> _pane_scroll(a, k, ps, rows, cycle, FALSE)
      [] b.action = "pane_page_down" -> _pane_page(a, k, ps, TRUE)
      [] b.action = "pane_page_up" -> _pane_page(a, k, ps, FALSE)
      [] b.action = "pane_set_action_multiplier" ->
            Ran(a, _pane_set_action_multiplier(k, b.keys), ps, FALSE, None)

\* KB.add.decorator.executable without the test of self._activated
executable_NoGate(b, a, k, ps, rows, cycle) ==
    LET r == KeyAction(b, a, k, ps, rows, cycle)
    IN  IF r.raised \/ b.raw THEN r ELSE [r EXCEPT !.kb.action_multiplier = None]

\* KB.add.decorator.executable
executable(b, a, k, ps, rows, cycle) ==
    IF ~k.activated
    THEN Ran(a, k, ps, FALSE, None)
    ELSE LET r == KeyAction(b, a, k, ps, rows, cycle)
         IN  IF r.raised \/ b.raw THEN r ELSE [r EXCEPT !.kb.action_multiplier = None]

(***************************************************************************)
(* The state after App.__init__.                                           *)
(***************************************************************************)
\* Spinner.__init__ with the latch self._spinning; tasks are the stages of the
\* asyncio tasks created for start(): "new", "loop" (asleep inside the
\* while loop) or "done"
Spinner_init == [spinning |-> FALSE, tasks |-> << >>]

\* Spinner.start without the test of the latch
Spinner_start_NoLatch(sp, i, loading) ==
    IF loading
    THEN [sp EXCEPT !.spinning = TRUE, !.tasks[i] = "loop"]
    ELSE [sp EXCEPT !.spinning = FALSE, !.tasks[i] = "done"]

\* Spinner.start, task i running from its start to its first await: it
\* returns when the latch is set, else sets it and enters the loop of spin,
\* which ends at once (latch cleared) when the pane is not loading
Spinner_start(sp, i, loading) ==
    IF sp.spinning
    THEN [sp EXCEPT !.tasks[i] = "done"]
    ELSE IF loading
         THEN [sp EXCEPT !.spinning = TRUE, !.tasks[i] = "loop"]
         ELSE [sp EXCEPT !.spinning = FALSE, !.tasks[i] = "done"]

\* the loop of task i finds the loading condition false after a round of
\* its pattern: it ends and clears the latch
Spinner_stop(sp, i) == [sp EXCEPT !.spinning = FALSE, !.tasks[i] = "done"]

\* the FilePane.loading setter: the flag, and a start() task when it is set
\* to true
loading_setter(f, sp, value) ==
    [pane |-> [f EXCEPT !.loading = value],
     spinner |-> IF value THEN [sp EXCEPT !.tasks = Append(@, "new")] ELSE sp]

\* CommandPane.__init__; tasks are the asyncio tasks created so far, task is
\* the position of self._task in them (0 for None)
CommandPane_init == [mode |-> "clear", text |-> "", task |-> 0, tasks |-> << >>]

CommandMode == {"command", "search", "reverse_search", "clear"}

\* the start of the one block of name that matches the whole of text
\* (matching_blocks of editops), None when there is no such block
MatchStart(name, text) ==
    CASE text = "b" /\ name \in {"bk/", "b/"} -> Some(0)
      [] text = "b" /\ name = ".b2/" -> Some(1)
      [] text = "k" /\ name \in {"bk/", ".k"} -> Some(1)
      [] OTHER -> None

\* match_exact: position in files |-> matched character positions, None
\* when no file matches (text has one character)
match_exact(files, text) ==
    LET hits == {i \in 0 .. (Len(files) - 1) : MatchStart(files[i + 1].name, text) # None}
    IN  IF hits = {} THEN None
        ELSE Some([i \in hits |-> {MatchStart(files[i + 1].name, text)[1]}])

\* a task created by asyncio.create_task(search_text(text)) for pane object o
SearchTask(o, text) == [pane |-> o, text |-> text, stage |-> "new", cancel |-> FALSE]

\* Task.done()
Task_done(t) == t.stage \in {"done", "cancelled"}

\* CommandPane._on_text_changed up to its test of the search mode, without
\* the cancel of the unfinished task
Cancelled_NoCancel(c) == c.tasks

\* CommandPane._on_text_changed: the tasks after `self._task.cancel()`
Cancelled(c) ==
    IF c.task # 0 /\ ~Task_done(c.tasks[c.task])
    THEN [c.tasks EXCEPT ![c.task].cancel = TRUE]
    ELSE c.tasks

\* CommandPane._on_text_changed after the buffer text became text; o is the
\* current file pane
_on_text_changed(c, o, text) ==
    LET c0 == [c EXCEPT !.text = text]
    IN  IF c0.mode = "command" THEN c0
        ELSE LET c1 == [c0 EXCEPT !.tasks = Cancelled(c0)]
             IN  IF c1.mode = "search"
                 THEN [c1 EXCEPT !.tasks = Append(@, SearchTask(o, text)),
                                 !.task = Len(c1.tasks) + 1]
                 ELSE c1

Init ==
    /\ term_rows \in MinRows .. (MinRows + RowsSpan)
    /\ config \in [cycle : BOOLEAN, dir_max_size : 0 .. MaxDirSize, kb : {KBConfig_init}]
    /\ app = App_init
    /\ kb = KB_init
    /\ panes = [o \in PaneObjs |->
                  FilePane_init(IF o = "P1" THEN "left" ELSE "right", term_rows)]
    /\ directory = << >>
    /\ writes = << >>
    /\ trip = None
    /\ navs = 0
    /\ typed = None
    /\ cmd = CommandPane_init
    /\ flights = << >>
    /\ spinners = [o \in PaneObjs |-> Spinner_init]
    /\ last = [op |-> "init"]

\* the height available to pane object o
Height(o) == _get_height(panes[o].id, app.layout_mode, term_rows)

(***************************************************************************)
(* Pane operations called on a pane object.                                *)
(***************************************************************************)
\* The calls of scroll_down/scroll_up: by a count, by half a page (the count is
\* then ignored), to the edge.
ScrollCalls ==
    {[value |-> v, page |-> FALSE, edge |-> FALSE] : v \in 1 .. MaxCount}
        \cup {[value |-> 1, page |-> TRUE, edge |-> FALSE],
              [value |-> 1, page |-> FALSE, edge |-> TRUE]}

ScrollObs(op, o, value, page, edge) ==
    [op |-> op, pane |-> o, page |-> page, edge |-> edge,
     step |-> ScrollStep(Height(o), value, page),
     raised |-> scroll_raises(panes[o], Height(o), config.cycle, value, page, edge)]

ScrollDown(o, value, page, bottom) ==
    /\ panes' = [panes EXCEPT ![o] = scroll_down(@, Height(o), config.cycle, value, page, bottom)]
    /\ last' = ScrollObs("scroll_down", o, value, page, bottom)
    /\ UNCHANGED <<term_rows, config, app, kb, directory, writes, trip, navs, typed, cmd, flights, spinners>>

ScrollUp(o, value, page, top) ==
    /\ panes' = [panes EXCEPT ![o] = scroll_up(@, Height(o), config.cycle, value, page, top)]
    /\ last' = ScrollObs("scroll_up", o, value, page, top)
    /\ UNCHANGED <<term_rows, config, app, kb, directory, writes, trip, navs, typed, cmd, flights, spinners>>

\* the viewport is followed while it stays within MaxDrift lines of the list
InDrift(f) == f.first_line >= 0 - MaxDrift /\ f.last_line <= file_count(f) + MaxDrift

PageUp(o, value) ==
    /\ InDrift(page_up(panes[o], value))
    /\ panes' = [panes EXCEPT ![o] = page_up(@, value)]
    /\ last' = [op |-> "page_up", pane |-> o, value |-> value]
    /\ UNCHANGED <<term_rows, config, app, kb, directory, writes, trip, navs, typed, cmd, flights, spinners>>

PageDown(o, value) ==
    /\ InDrift(page_down(panes[o], value))
    /\ panes' = [panes EXCEPT ![o] = page_down(@, value)]
    /\ last' = [op |-> "page_down", pane |-> o, value |-> value]
    /\ UNCHANGED <<term_rows, config, app, kb, directory, writes, trip, navs, typed, cmd, flights, spinners>>

\* a render: the pane's FormattedTextControl calls _get_formatted_files
Render(o) ==
    /\ panes' = [panes EXCEPT ![o] = _get_formatted_files(@, Height(o))]
    /\ last' = [op |-> "render", pane |-> o]
    /\ UNCHANGED <<term_rows, config, app, kb, directory, writes, trip, navs, typed, cmd, flights, spinners>>

\* the terminal is resized
Resize(rows) ==
    /\ rows # term_rows
    /\ term_rows' = rows
    /\ last' = [op |-> "resize"]
    /\ UNCHANGED <<config, app, kb, panes, directory, writes, trip, navs, typed, cmd, flights, spinners>>

\* App.layout_switch called directly
LayoutSwitch(layout) ==
    /\ app' = layout_switch(app, layout)
    /\ last' = [op |-> "layout_switch", layout |-> layout]
    /\ UNCHANGED <<term_rows, config, kb, panes, directory, writes, trip, navs, typed, cmd, flights, spinners>>

\* the error that set_error receives from a pane operation
Notify(a, notified) == IF notified THEN set_error(a, Notification("msg", "ERROR")) ELSE a

\* FilePane.load_data called on a pane
LoadData(o, ok1, ok2) ==
    LET r == load_data(panes[o], ok1, ok2)
    IN  /\ panes' = [panes EXCEPT ![o] = r.pane]
        /\ app' = Notify(app, r.notified)
        /\ last' = [op |-> "load_data", pane |-> o, raised |-> r.raised]
        /\ trip' = IF r.notified THEN None ELSE trip
        /\ UNCHANGED <<term_rows, config, kb, directory, writes, navs, typed, cmd, flights, spinners>>

\* FilePane.pane_toggle_hidden_files called on a pane
ToggleHidden(o, value) ==
    /\ panes' = [panes EXCEPT ![o] = pane_toggle_hidden_files(@, value)]
    /\ last' = [op |-> "pane_toggle_hidden_files", pane |-> o, value |-> value,
                pre_hidden |-> panes[o].display_hidden]
    /\ UNCHANGED <<term_rows, config, app, kb, directory, writes, trip, navs, typed, cmd, flights, spinners>>

\* FilePane.pane_switch_mode called on a pane
SwitchMode(o, mode, ok1, ok2) ==
    LET r == pane_switch_mode(panes[o], mode, ok1, ok2)
    IN  /\ panes' = [panes EXCEPT ![o] = r.pane]
        /\ app' = Notify(app, r.notified)
        /\ last' = [op |-> "pane_switch_mode", pane |-> o, raised |-> r.raised]
        /\ trip' = None
        /\ UNCHANGED <<term_rows, config, kb, directory, writes, navs, typed, cmd, flights, spinners>>

\* what a navigation leaves in `last`
NavObs(op, o, h) ==
    [op |-> op, pane |-> o, raised |-> h.raised, notified |-> h.notified]

\* the navigation of pane o with outcome h leaves the entered child for the
\* directory it was entered from
Returns(o, h) ==
    /\ trip # None /\ ~trip[1].done /\ trip[1].pane = o
    /\ ~h.raised /\ ~h.notified
    /\ PanePath(panes[o]) = trip[1].into
    /\ PanePath(h.pane) = trip[1].from

\* the trip observed after a navigation of pane o that started on path and
\* leaves the trip `own` when no other pane is on a trip: a navigation made
\* while another pane is on its trip is noted in that trip when it writes
\* the entry of the directory that trip started from
TripAfter(o, path, own) ==
    IF trip # None /\ ~trip[1].done /\ trip[1].pane # o
    THEN Some([trip[1] EXCEPT !.foreign = @ \/ path = trip[1].from])
    ELSE own

\* FilePane.forward called on a pane that has made fewer than budget navigations
ForwardNav(o, how1, how2, budget) ==
    LET f == panes[o]
        h == hist_dir(f, directory, SizeLimit, forward(f, how1, how2))
        cs == current_selection(f)
        entered == /\ ~h.raised /\ ~h.notified
                   /\ PanePath(h.pane) # PanePath(f)
                   /\ cs # None /\ cs[1].name # ".."
    IN  /\ navs < budget
        /\ navs' = navs + 1
        /\ panes' = [panes EXCEPT ![o] = h.pane]
        /\ directory' = h.directory
        /\ app' = Notify(app, h.notified)
        /\ trip' = TripAfter(o, PanePath(f),
                       IF entered
                       THEN Some([pane |-> o, from |-> PanePath(f), done |-> FALSE,
                                  index |-> f.selected_file_index, into |-> PanePath(h.pane),
                                  foreign |-> FALSE])
                       ELSE IF Returns(o, h) THEN Some([trip[1] EXCEPT !.done = TRUE])
                       ELSE None)
        /\ last' = NavObs("forward", o, h) @@ ("cd" :> forward_cd(f))
        /\ UNCHANGED <<term_rows, config, kb, writes, typed, cmd, flights, spinners>>

\* FilePane.forward called on a pane
Forward(o, how1, how2) == ForwardNav(o, how1, how2, MaxNavs)

\* FilePane.backword called on a pane that has made fewer than budget navigations
BackwordNav(o, how, budget) ==
    LET f == panes[o]
        h == hist_dir(f, directory, SizeLimit, backword(f, how))
    IN  /\ navs < budget
        /\ navs' = navs + 1
        /\ panes' = [panes EXCEPT ![o] = h.pane]
        /\ directory' = h.directory
        /\ trip' = TripAfter(o, PanePath(f),
                       IF Returns(o, h) THEN Some([trip[1] EXCEPT !.done = TRUE]) ELSE None)
        /\ last' = NavObs("backword", o, h)
        /\ UNCHANGED <<term_rows, config, app, kb, writes, typed, cmd, flights, spinners>>

\* FilePane.backword called on a pane
Backword(o, how) == BackwordNav(o, how, MaxNavs)

\* App.pane_swap called directly
PaneSwap(direction, layout) ==
    LET r == pane_swap(app, panes, direction, layout)
    IN  /\ app' = r.app
        /\ panes' = r.panes
        /\ last' = [op |-> "pane_swap", direction |-> direction, layout |-> layout]
        /\ UNCHANGED <<term_rows, config, kb, directory, writes, trip, navs, typed, cmd, flights, spinners>>

\* App.pane_focus_other, App.cmd_focus and App.cmd_exit called directly
PaneFocusOther ==
    /\ app' = pane_focus_other(app)
    /\ last' = [op |-> "pane_focus_other"]
    /\ UNCHANGED <<term_rows, config, kb, panes, directory, writes, trip, navs, typed, cmd, flights, spinners>>

CmdFocus ==
    /\ app' = cmd_focus(app)
    /\ last' = [op |-> "cmd_focus"]
    /\ UNCHANGED <<term_rows, config, kb, panes, directory, writes, trip, navs, typed, cmd, flights, spinners>>

CmdExit ==
    /\ app' = cmd_exit(app)
    /\ last' = [op |-> "cmd_exit"]
    /\ UNCHANGED <<term_rows, config, kb, panes, directory, writes, trip, navs, typed, cmd, flights, spinners>>

\* App._after_render, first call: the render task is created
AfterRender ==
    /\ ~app.rendered
    /\ app' = [app EXCEPT !.rendered = TRUE]
    /\ panes' = [o \in PaneObjs |-> [panes[o] EXCEPT !.loading = TRUE]]
    /\ last' = [op |-> "after_render"]
    /\ UNCHANGED <<term_rows, config, kb, directory, writes, trip, navs, typed, cmd, flights, spinners>>

\* the focus and layout that History.read finds saved (the first is what
\* History.__init__ sets when there is no history file)
SavedHistory ==
    {[focus |-> "left", layout |-> "vertical"], [focus |-> "right", layout |-> "horizontal"]}

\* FilePane.path (the setter) with Path(value): the pane and whether it
\* called set_error; Path("") is the bucket list for the object store
path_setter(f, value) ==
    IF f.mode = "s3"
    THEN Result([f EXCEPT !.s3_path = IF value = "" THEN S3Root ELSE value], FALSE, FALSE)
    ELSE IF f.mode = "fs"
    THEN Result([f EXCEPT !.fs_path = value], FALSE, FALSE)
    ELSE Result([f EXCEPT !.mode = "fs", !.fs_path = value], TRUE, FALSE)

\* the set_error call of the pane's mode checks
Warn(a, notified) ==
    IF notified THEN set_error(a, Notification("Unexpected pane mode.", "WARNING")) ELSE a

\* App._render_task that activates the keys and starts the loads without
\* applying the saved history
RenderTaskSaved_NoApply(hist) ==
    /\ app.rendered /\ ~kb.activated
    /\ app' = [app EXCEPT !.load_tasks = {app.left_pane, app.right_pane}]
    /\ kb' = [kb EXCEPT !.activated = TRUE]
    /\ last' = [op |-> "render_task", saved |-> hist]
    /\ UNCHANGED <<term_rows, config, panes, directory, writes, trip, navs, typed, cmd, flights, spinners>>

\* App._render_task up to its await of the two loads, with the modes, focus
\* and layout that History.read found saved; indices and paths are those of
\* History.__init__
RenderTaskSaved(hist) ==
    LET l == path_setter([panes[app.left_pane] EXCEPT !.mode = hist.left_mode,
                                                      !.selected_file_index = 0], "")
        r == path_setter([panes[app.right_pane] EXCEPT !.mode = hist.right_mode,
                                                       !.selected_file_index = 0], FsCwd)
        a1 == Warn(Warn(app, l.notified), r.notified)
    IN  /\ app.rendered /\ ~kb.activated
        /\ panes' = [panes EXCEPT ![app.left_pane] = l.pane, ![app.right_pane] = r.pane]
        /\ app' = [layout_switch(pane_focus(a1, hist.focus), hist.layout)
                      EXCEPT !.load_tasks = {app.left_pane, app.right_pane}]
        /\ kb' = [kb EXCEPT !.activated = TRUE]
        /\ last' = [op |-> "render_task", saved |-> hist]
        /\ UNCHANGED <<term_rows, config, directory, writes, trip, navs, typed, cmd, flights, spinners>>

\* App._render_task with the modes of History.__init__
RenderTask(hist) ==
    RenderTaskSaved([focus |-> hist.focus, layout |-> hist.layout,
                     left_mode |-> "s3", right_mode |-> "fs"])

\* App._load_pane_data of the render task completes for pane o
LoadDone(o, ok1, ok2) ==
    LET r == load_data(panes[o], ok1, ok2)
    IN  /\ o \in app.load_tasks
        /\ panes' = [panes EXCEPT ![o] = r.pane]
        /\ app' = [Notify(app, r.notified) EXCEPT !.load_tasks = @ \ {o}]
        /\ last' = [op |-> "load_done", pane |-> o, raised |-> r.raised,
                    notified |-> r.notified]
        /\ UNCHANGED <<term_rows, config, kb, directory, writes, trip, navs, typed, cmd, flights, spinners>>

\* the decimal value of the digits pressed, after digit d
Typed(t, d) == IF t = None THEN Some(d) ELSE Some(10 * t[1] + d)

\* The key processor receives `keys`: the handler of the matching binding runs.
Key(keys) ==
    LET h == Handler(app, keys)
        ran == h # None /\ kb.activated
        r == IF h = None THEN Ran(app, kb, panes, FALSE, None)
             ELSE executable(h[1], app, kb, panes, term_rows, config.cycle)
    IN  /\ ~app.exited
        /\ r.kb.action_multiplier # None => r.kb.action_multiplier[1] <= MaxMultiplier
        /\ app' = r.app
        /\ kb' = r.kb
        /\ panes' = r.panes
        /\ typed' = IF ~ran THEN typed
                    ELSE IF h[1].raw
                         THEN Typed(typed, CHOOSE d \in 0 .. 9 : DigitChars[d + 1] = keys)
                         ELSE None
        /\ last' = [op |-> "key", keys |-> keys, matched |-> h, ran |-> ran,
                    raised |-> r.raised, call |-> r.call]
        /\ UNCHANGED <<term_rows, config, directory, writes, trip, navs, cmd, flights, spinners>>

(***************************************************************************)
(* SpecView: one pane (the left one) is scrolled, paged, re-listed and     *)
(* rendered while the terminal is resized and the layout switched.         *)
(***************************************************************************)
InitView == Init /\ config.dir_max_size = 0 /\ ~config.cycle

NextView ==
    \/ \E c \in ScrollCalls : ScrollDown("P1", c.value, c.page, c.edge)
    \/ \E c \in ScrollCalls : ScrollUp("P1", c.value, c.page, c.edge)
    \/ \E v \in 1 .. MaxCount : PageUp("P1", v)
    \/ \E v \in 1 .. MaxCount : PageDown("P1", v)
    \/ Render("P1")
    \/ \E rows \in MinRows .. (MinRows + RowsSpan) : Resize(rows)
    \/ \E layout \in LayoutMode : LayoutSwitch(layout)
    \/ LoadData("P1", TRUE, TRUE)
    \/ \E value \in {None, Some(TRUE), Some(FALSE)} : ToggleHidden("P1", value)
    \/ SwitchMode("P1", None, TRUE, TRUE)

SpecView == InitView /\ [][NextView]_vars

(***************************************************************************)
(* SpecScroll: the left pane is scrolled (by a count, by half a page, to   *)
(* the edge) with cyclic mode off or on, over lists of several lengths and *)
(* heights.                                                                *)
(***************************************************************************)
InitScroll == Init /\ config.dir_max_size = 0

NextScroll ==
    \/ \E c \in ScrollCalls : ScrollDown("P1", c.value, c.page, c.edge)
    \/ \E c \in ScrollCalls : ScrollUp("P1", c.value, c.page, c.edge)
    \/ Render("P1")
    \/ \E rows \in MinRows .. (MinRows + RowsSpan) : Resize(rows)
    \/ \E layout \in LayoutMode : LayoutSwitch(layout)
    \/ LoadData("P1", TRUE, TRUE)
    \/ ToggleHidden("P1", None)
    \/ SwitchMode("P1", None, TRUE, TRUE)

SpecScroll == InitScroll /\ [][NextScroll]_vars

(***************************************************************************)
(* SpecDir: the directory history is written and read directly.            *)
(***************************************************************************)
DirPaths == {"/a", "/b", "/c"}

\* self._history._directory[key] = value
DirWrite(key, value) ==
    /\ Len(writes) < MaxWrites
    /\ directory' = Directory_setitem(directory, SizeLimit, key, value)
    /\ writes' = Append(writes, [key |-> key, value |-> value])
    /\ last' = [op |-> "dir_set"]
    /\ UNCHANGED <<term_rows, config, app, kb, panes, trip, navs, typed, cmd, flights, spinners>>

\* self._history._directory.get(key, 0)
DirRead(key) ==
    /\ last' = [op |-> "dir_get", key |-> key, result |-> Directory_get(directory, key, 0)]
    /\ UNCHANGED <<term_rows, config, app, kb, panes, directory, writes, trip, navs, typed, cmd, flights, spinners>>

InitDir == Init /\ ~config.cycle /\ term_rows = MinRows

NextDir ==
    \/ \E key \in DirPaths, value \in 0 .. 1 : DirWrite(key, value)
    \/ \E key \in DirPaths : DirRead(key)

SpecDir == InitDir /\ [][NextDir]_vars

(***************************************************************************)
(* SpecNav: the left pane enters and leaves directories of both data       *)
(* sources, with the cursor moved in between; the other pane is idle.      *)
(***************************************************************************)
InitNav == Init /\ ~config.cycle /\ term_rows = MinRows

NextNav ==
    \/ \E how1, how2 \in Outcome : Forward("P1", how1, how2)
    \/ \E how \in {"ok", "list"} : Backword("P1", how)
    \/ ScrollDown("P1", 1, FALSE, FALSE)
    \/ ScrollUp("P1", 1, FALSE, FALSE)
    \/ LoadData("P1", TRUE, TRUE)
    \/ navs = 0 /\ SwitchMode("P1", None, TRUE, TRUE)

SpecNav == InitNav /\ [][NextNav]_vars

\* FilePane.search_text past its sleep: the assignment of the match set
search_text(f, text) ==
    [f EXCEPT !.searched_indices =
        IF text = "" THEN None ELSE match_exact(f.filtered_files, text)]

SearchTexts == {"", "b", "k"}

\* the CommandPane.mode setter
CmdMode(mode) ==
    /\ mode # cmd.mode
    /\ cmd' = [cmd EXCEPT !.mode = mode]
    /\ last' = [op |-> "cmd_mode"]
    /\ UNCHANGED <<term_rows, config, app, kb, panes, directory, writes, trip, navs, typed, flights, spinners>>

\* the buffer of the command pane changes to text
TextChanged(text) ==
    /\ text # cmd.text
    /\ cmd.mode = "search" => Len(cmd.tasks) < MaxSearches
    /\ cmd' = _on_text_changed(cmd, current_filepane(app), text)
    /\ last' = [op |-> "text_changed"]
    /\ UNCHANGED <<term_rows, config, app, kb, panes, directory, writes, trip, navs, typed, flights, spinners>>

\* the event loop runs search task i up to its next await: a cancelled task
\* ends at once; FilePane.search_text with an empty text assigns and ends,
\* otherwise it sleeps and, woken up, computes and assigns the match set
SearchStep(i) ==
    LET t == cmd.tasks[i]
    IN  /\ i \in DOMAIN cmd.tasks
        /\ ~Task_done(t)
        /\ IF t.cancel
           THEN /\ cmd' = [cmd EXCEPT !.tasks[i].stage = "cancelled"]
                /\ panes' = panes
           ELSE IF t.stage = "new" /\ t.text # ""
           THEN /\ cmd' = [cmd EXCEPT !.tasks[i].stage = "sleeping"]
                /\ panes' = panes
           ELSE /\ cmd' = [cmd EXCEPT !.tasks[i].stage = "done"]
                /\ panes' = [panes EXCEPT ![t.pane] = search_text(@, t.text)]
        /\ last' = [op |-> "search_step"]
        /\ UNCHANGED <<term_rows, config, app, kb, directory, writes, trip, navs, typed, flights, spinners>>

\* the command pane searching the focused pane while texts are typed
InitSearch == InitNav /\ config.dir_max_size = 0

NextSearch ==
    \/ cmd.tasks = << >> /\ LoadData("P1", TRUE, TRUE)
    \/ \E mode \in CommandMode : CmdMode(mode)
    \/ \E text \in SearchTexts : TextChanged(text)
    \/ \E i \in 1 .. MaxSearches : SearchStep(i)

SpecSearch == InitSearch /\ [][NextSearch]_vars

\* a sequence without its element at position i
RemoveAt(seq, i) == SubSeq(seq, 1, i - 1) \o SubSeq(seq, i + 1, Len(seq))

\* a listing operation suspended at `await ...get_paths()`: listed is the
\* path being listed, tmp the value of self._files that `+=` has read
\* (load_data), curr_path and curr_result the locals of hist_dir
Flight(kind, o, stage, listed, tmp, curr_path, curr_result) ==
    [kind |-> kind, pane |-> o, stage |-> stage, listed |-> listed, tmp |-> tmp,
     curr_path |-> curr_path, curr_result |-> curr_result]

\* FilePane.load_data up to the await of its first listing
BeginLoad(o) ==
    /\ navs < MaxNavs /\ Len(flights) < MaxFlights
    /\ navs' = navs + 1
    /\ panes' = [panes EXCEPT ![o].files = << >>, ![o].loading = TRUE]
    /\ flights' = Append(flights, Flight("load_data", o, "first", PanePath(panes[o]), << >>, "", 0))
    /\ last' = [op |-> "flight_begin", kind |-> "load_data", pane |-> o]
    /\ UNCHANGED <<term_rows, config, app, kb, directory, writes, trip, typed, cmd, spinners>>

\* FilePane.backword under hist_dir and spin_spinner up to the await of the
\* listing inside cd(): the path is already the parent
BeginBackwordAs(o, stage) ==
    LET f == panes[o]
        curr_path == PanePath(f)
        parent == Parent(curr_path)
    IN  /\ navs < MaxNavs /\ Len(flights) < MaxFlights
        /\ navs' = navs + 1
        /\ directory' = Directory_setitem(directory, SizeLimit, curr_path, f.selected_file_index)
        /\ panes' = [panes EXCEPT ![o] = [WithPath(f, parent) EXCEPT !.loading = TRUE]]
        /\ flights' = Append(flights, Flight("backword", o, stage, parent, << >>, curr_path,
                                             Directory_get(directory, curr_path, 0)))
        /\ last' = [op |-> "flight_begin", kind |-> "backword", pane |-> o]
        /\ typed' = IF stage = "key" THEN None ELSE typed
        /\ UNCHANGED <<term_rows, config, app, kb, writes, trip, cmd, spinners>>

\* FilePane.forward under hist_dir, spin_spinner and file_action up to the
\* await of the listing inside cd(name): the path is already the target
BeginForwardAs(o, stage) ==
    LET f == panes[o]
        curr_path == PanePath(f)
        target == CdTarget(curr_path, current_selection(f)[1])
    IN  /\ navs < MaxNavs /\ Len(flights) < MaxFlights
        /\ forward_cd(f) # None
        /\ navs' = navs + 1
        /\ directory' = Directory_setitem(directory, SizeLimit, curr_path, f.selected_file_index)
        /\ panes' = [panes EXCEPT ![o] = [WithPath(f, target) EXCEPT !.loading = TRUE]]
        /\ flights' = Append(flights, Flight("forward", o, stage, target, << >>, curr_path,
                                             Directory_get(directory, curr_path, 0)))
        /\ last' = [op |-> "flight_begin", kind |-> "forward", pane |-> o]
        /\ typed' = IF stage = "key" THEN None ELSE typed
        /\ UNCHANGED <<term_rows, config, app, kb, writes, trip, cmd, spinners>>

\* FilePane.backword and FilePane.forward called directly
BeginBackword(o) == BeginBackwordAs(o, "first")
BeginForward(o) == BeginForwardAs(o, "first")

\* The key processor receives a key bound to pane_forward or pane_backword:
\* KB.add's executable awaits KB._pane_forward / KB._pane_backword, which is
\* suspended inside the listing (a flight of stage "key")
KeyNavBegin(keys) ==
    LET h == Handler(app, keys)
    IN  /\ ~app.exited /\ kb.activated
        /\ h # None /\ h[1].action \in {"pane_forward", "pane_backword"}
        /\ IF h[1].action = "pane_forward"
           THEN BeginForwardAs(current_filepane(app), "key")
           ELSE BeginBackwordAs(current_filepane(app), "key")

\* the listing of path in the mode of pane f
ListingOf(f, path) == get_paths(WithPath(f, path))

\* the listing awaited by flight i arrives: load_data extends the list its
\* `+=` has read and stores it, forward and backword store the listing; all
\* of them filter and return through spin_spinner (and hist_dir)
EndFlight(i) ==
    LET t == flights[i]
        o == t.pane
        f == panes[o]
        result == ListingOf(f, t.listed)
        files == IF t.kind = "load_data" THEN t.tmp \o result ELSE result
        f1 == filter_files([f EXCEPT !.files = files])
        f2 == IF t.kind = "load_data" THEN [f1 EXCEPT !.loaded = TRUE] ELSE f1
        new_path == PanePath(f2)
    IN  /\ i \in DOMAIN flights
        /\ flights' = RemoveAt(flights, i)
        /\ panes' = [panes EXCEPT ![o] =
                       IF t.kind = "load_data" \/ new_path = t.curr_path
                       THEN Spun(f2)
                       ELSE [Spun(f2) EXCEPT !.selected_file_index =
                                                Directory_get(directory, new_path, 0)]]
        /\ directory' = IF t.kind # "load_data" /\ new_path = t.curr_path
                        THEN Directory_setitem(directory, SizeLimit, t.curr_path, t.curr_result)
                        ELSE directory
        /\ last' = [op |-> "flight_end", kind |-> t.kind, pane |-> o, result |-> result]
        /\ kb' = IF t.stage = "key" THEN [kb EXCEPT !.action_multiplier = None] ELSE kb
        /\ UNCHANGED <<term_rows, config, app, writes, trip, navs, typed, cmd, spinners>>

\* the first listing awaited by load_data flight i raises: the except branch
\* reports, resets the path and awaits the listing of the default path,
\* after `+=` has read self._files again
FailFlight(i) ==
    LET t == flights[i]
        o == t.pane
        f1 == WithPath(panes[o], DefaultPath(panes[o]))
    IN  /\ i \in DOMAIN flights
        /\ t.kind = "load_data" /\ t.stage = "first"
        /\ app' = Notify(app, TRUE)
        /\ panes' = [panes EXCEPT ![o] = f1]
        /\ flights' = [flights EXCEPT ![i] = Flight("load_data", o, "second", DefaultPath(f1),
                                                    f1.files, "", 0)]
        /\ last' = [op |-> "flight_fail", kind |-> t.kind, pane |-> o]
        /\ UNCHANGED <<term_rows, config, kb, directory, writes, trip, navs, typed, cmd, spinners>>

\* the loading flag of pane o is assigned
SetLoading(o, value) ==
    LET r == loading_setter(panes[o], spinners[o], value)
    IN  /\ value => Len(spinners[o].tasks) < MaxSpins
        /\ panes' = [panes EXCEPT ![o] = r.pane]
        /\ spinners' = [spinners EXCEPT ![o] = r.spinner]
        /\ last' = [op |-> "loading", pane |-> o, value |-> value]
        /\ UNCHANGED <<term_rows, config, app, kb, directory, writes, trip, navs, typed, cmd, flights>>

\* the event loop runs start() task i of pane o up to its next await
SpinnerStep(o, i) ==
    LET sp == spinners[o]
    IN  /\ i \in DOMAIN sp.tasks
        /\ \/ /\ sp.tasks[i] = "new"
              /\ spinners' = [spinners EXCEPT ![o] = Spinner_start(sp, i, panes[o].loading)]
           \/ /\ sp.tasks[i] = "loop" /\ ~panes[o].loading
              /\ spinners' = [spinners EXCEPT ![o] = Spinner_stop(sp, i)]
        /\ last' = [op |-> "spinner_step", pane |-> o, task |-> i, was |-> sp.tasks[i]]
        /\ UNCHANGED <<term_rows, config, app, kb, panes, directory, writes, trip, navs, typed, cmd, flights>>

\* the loading flags of the two panes set and cleared while their spinners run
NextSpin ==
    \/ \E o \in PaneObjs, value \in BOOLEAN : SetLoading(o, value)
    \/ \E o \in PaneObjs, i \in 1 .. MaxSpins : SpinnerStep(o, i)

SpecSpin == InitSearch /\ [][NextSpin]_vars

\* both panes have loaded their first listing
BothLoaded == \A o \in PaneObjs : panes[o].loaded

\* the two panes, once loaded, navigating in turn over the one shared
\* directory history
NextPanes ==
    \/ \E o \in PaneObjs : BothLoaded /\ ForwardNav(o, "ok", "ok", MaxPaneNavs)
    \/ \E o \in PaneObjs : BothLoaded /\ BackwordNav(o, "ok", MaxPaneNavs)
    \/ \E o \in PaneObjs : BothLoaded /\ ScrollDown(o, 1, FALSE, FALSE)
    \/ \E o \in PaneObjs : ~panes[o].loaded /\ LoadData(o, TRUE, TRUE)
    \/ ~panes["P2"].loaded /\ SwitchMode("P2", None, TRUE, TRUE)

SpecPanes == InitNav /\ [][NextPanes]_vars

\* a pane whose loads and navigations overlap
NextFlights ==
    \/ BeginLoad("P1")
    \/ BeginBackword("P1")
    \/ BeginForward("P1")
    \/ \E i \in 1 .. MaxFlights : EndFlight(i)
    \/ \E i \in 1 .. MaxFlights : FailFlight(i)
    \/ ScrollDown("P1", 1, FALSE, FALSE)
    \/ ToggleHidden("P1", None)

SpecFlights == InitNav /\ [][NextFlights]_vars

\* a pane that is navigated without failures while its hidden files are
\* switched on and off
NextFilter ==
    \/ Forward("P1", "ok", "ok")
    \/ Backword("P1", "ok")
    \/ ScrollDown("P1", 1, FALSE, FALSE)
    \/ ScrollUp("P1", 1, FALSE, FALSE)
    \/ navs = 0 /\ SwitchMode("P1", None, TRUE, TRUE)
    \/ \E value \in {None, Some(TRUE), Some(FALSE)} : ToggleHidden("P1", value)

SpecFilter == InitNav /\ [][NextFilter]_vars

\* the action names, keys and modes a configuration file passes
ConfigActions == {"exit", "forward", "hello"} \cup Callables
ConfigKeys == {"c-q"}
KBModes == {"normal", "command"}

\* the bindings `action` has in `mode`, built-in or custom
BindingsOf(k, action, mode) ==
    LET d == IF IsStr(action) THEN k.kb_maps[mode] ELSE k.custom_kb_maps[mode]
    IN  IF action \in DOMAIN d THEN d[action] ELSE << >>

\* config.kb.map(action, keys, mode) in the configuration file
Map(action, keys, mode) ==
    LET r == KBConfig_map(config.kb, action, keys, mode)
    IN  /\ Len(BindingsOf(config.kb, action, mode)) < MaxBindings
        /\ config' = [config EXCEPT !.kb = r.kb]
        /\ last' = [op |-> "map", action |-> action, mode |-> mode, raised |-> r.raised]
        /\ UNCHANGED <<term_rows, app, kb, panes, directory, writes, trip, navs, typed, cmd, flights, spinners>>

\* config.kb.unmap(action, mode) in the configuration file
Unmap(action, mode) ==
    LET r == KBConfig_unmap(config.kb, action, mode)
    IN  /\ config' = [config EXCEPT !.kb = r.kb]
        /\ last' = [op |-> "unmap", action |-> action, mode |-> mode, raised |-> r.raised]
        /\ UNCHANGED <<term_rows, app, kb, panes, directory, writes, trip, navs, typed, cmd, flights, spinners>>

NextKB ==
    \/ \E action \in ConfigActions, keys \in ConfigKeys, mode \in KBModes :
            Map(action, keys, mode)
    \/ \E action \in ConfigActions, mode \in KBModes : Unmap(action, mode)

\* The calls a configuration file makes on config.kb before the application starts.
SpecKB == InitSearch /\ [][NextKB]_vars

(***************************************************************************)
(* SpecFocus: the focus, layout and swap operations of App are called in   *)
(* any order.                                                              *)
(***************************************************************************)
InitFocus == Init /\ ~config.cycle /\ term_rows = MinRows /\ config.dir_max_size = 0

NextFocus ==
    \/ \E direction \in Direction, layout \in LayoutMode : PaneSwap(direction, layout)
    \/ \E layout \in LayoutMode : LayoutSwitch(layout)
    \/ PaneFocusOther
    \/ CmdFocus
    \/ CmdExit

SpecFocus == InitFocus /\ [][NextFocus]_vars

(***************************************************************************)
(* Spec: the application starts (first render, render task, the two loads) *)
(* while keys arrive.                                                      *)
(***************************************************************************)
InitKeys == Init /\ term_rows = MinRows /\ config.dir_max_size = 0

Next ==
    \/ AfterRender
    \/ \E hist \in SavedHistory : RenderTask(hist)
    \/ \E o \in PaneObjs, ok1 \in BOOLEAN : LoadDone(o, ok1, TRUE)
    \/ \E keys \in ScrollKeys : Key(keys)

Spec == InitKeys /\ [][Next]_vars

\* the application driven by the focus, layout and swap keys, with loads that may fail
InitKeysFocus == InitKeys /\ ~config.cycle

NextKeysFocus ==
    \/ AfterRender
    \/ \E hist \in SavedHistory : RenderTask(hist)
    \/ \E o \in PaneObjs, ok1 \in BOOLEAN : LoadDone(o, ok1, TRUE)
    \/ \E keys \in FocusKeys : Key(keys)

SpecKeysFocus == InitKeysFocus /\ [][NextKeysFocus]_vars

\* the window of f starts no further than MaxDrift from the list
WindowNear(f) ==
    f.first_line >= 0 - MaxDrift /\ f.first_line <= file_count(f) + MaxDrift

\* the application driven by the digit, scroll and page-shift keys
NextKeysPage ==
    \/ AfterRender
    \/ \E hist \in SavedHistory : RenderTask(hist)
    \/ \E o \in PaneObjs : LoadDone(o, TRUE, TRUE)
    \/ \E keys \in {"j", "k"} \cup PageKeys \cup DigitKeys :
            Key(keys) /\ \A o \in PaneObjs : WindowNear(panes'[o])

SpecKeysPage == InitKeysFocus /\ [][NextKeysPage]_vars

\* the application driven by one digit key, the scroll-down key and the
\* keys that enter and leave a directory, whose listings take time
NextKeysAsync ==
    \/ AfterRender
    \/ \E hist \in SavedHistory : RenderTask(hist)
    \/ \E o \in PaneObjs : LoadDone(o, TRUE, TRUE)
    \/ \E keys \in NavKeys : KeyNavBegin(keys)
    \/ \E i \in 1 .. MaxFlights : EndFlight(i)
    \/ \E keys \in {"j", "2"} :
            Key(keys) /\ (typed' # None => typed'[1] <= MaxMultiplier)

SpecKeysAsync == InitKeysFocus /\ [][NextKeysAsync]_vars

\* a value that is no member of Pane, LayoutMode or PaneMode
Unrecognized == "10"

\* what History.read can find saved: any focus, layout and pane modes,
\* recognized or not
SavedValues ==
    [focus : {"left", "right", Unrecognized},
     layout : LayoutMode \cup {Unrecognized},
     left_mode : PaneMode \cup {Unrecognized},
     right_mode : PaneMode \cup {Unrecognized}]

\* the application starts from any saved history while the focus keys arrive
NextHeal ==
    \/ AfterRender
    \/ \E hist \in SavedValues : RenderTaskSaved(hist)
    \/ \E o \in PaneObjs, ok1 \in BOOLEAN : LoadDone(o, ok1, TRUE)
    \/ \E keys \in FocusKeys : Key(keys)

SpecHeal == InitKeysFocus /\ [][NextHeal]_vars

\* the operations wrapped by hist_dir
NavOps == {"forward", "backword"}

\* C4: History round-trip.  With a history capacity of at least 2, a pane that
\* entered child B from path A at selection index i, had only its cursor moved
\* inside B, and then leaves B for A (backword, or forward on ".."), has
\* selection index i again.
C4_HistoryRoundTrip ==
    [][\A o \in PaneObjs :
          ( /\ last'.op \in NavOps /\ last'.pane = o
            /\ ~last'.raised /\ ~last'.notified
            /\ SizeLimit >= 2
            /\ trip # None /\ ~trip[1].done /\ trip[1].pane = o
            /\ PanePath(panes[o]) = trip[1].into
            /\ PanePath(panes'[o]) = trip[1].from )
          => panes'[o].selected_file_index = trip[1].index]_vars

\* C4 witness: capacity 2, the pane has just returned to A, where it is back on
\* index i > 0, after its cursor was moved off the first line of B
C4_Witness ==
    /\ last.op \in NavOps /\ trip # None /\ trip[1].done
    /\ SizeLimit = 2
    /\ trip[1].index > 0
    /\ PanePath(panes[trip[1].pane]) = trip[1].from
    /\ panes[trip[1].pane].selected_file_index = trip[1].index
    /\ Directory_get(directory, trip[1].into, 0) > 0

\* C5: History decorator contract.  Every forward/backword leaves: when the path
\* changed, the outgoing path's entry holding the index the pane had and the
\* selection on the new path's remembered index (0 without an entry); when the
\* path did not change, the outgoing path's entry holding the value it had
\* before (0 when it had none) and the selection unchanged.
C5_HistDirContract ==
    [][\A o \in PaneObjs :
          (last'.op \in NavOps /\ last'.pane = o) =>
            LET curr_path == PanePath(panes[o])
                new_path == PanePath(panes'[o])
            IN  /\ curr_path \in DirKeys(directory')
                /\ IF new_path # curr_path
                   THEN /\ Directory_get(directory', curr_path, 0) = panes[o].selected_file_index
                        /\ panes'[o].selected_file_index = Directory_get(directory', new_path, 0)
                   ELSE /\ Directory_get(directory', curr_path, 0) = Directory_get(directory, curr_path, 0)
                        /\ panes'[o].selected_file_index = panes[o].selected_file_index]_vars

\* the state right after a viewport recompute of a pane that lists something
Rendered(o) == last.op = "render" /\ last.pane = o /\ file_count(panes[o]) > 0

\* C1 (viewport containment): right after every viewport recompute of a non-empty
\* pane, 0 <= first_line <= selection_index < last_line <= file_count.
C1_ViewportContainment ==
    \A o \in PaneObjs :
        Rendered(o) =>
            /\ 0 <= panes[o].first_line
            /\ panes[o].first_line <= panes[o].selected_file_index
            /\ panes[o].selected_file_index < panes[o].last_line
            /\ panes[o].last_line <= file_count(panes[o])

\* C2 (viewport size bound): right after every viewport recompute of a non-empty
\* pane, last_line - first_line <= available height.
C2_ViewportSizeBound ==
    \A o \in PaneObjs :
        Rendered(o) => panes[o].last_line - panes[o].first_line <= Height(o)

\* a selection inside the list
InList(f) == f.selected_file_index >= 0 /\ f.selected_file_index < file_count(f)

\* C3 (selection clamp): a scroll_down/scroll_up step taken on a non-empty list
\* with the selection inside it leaves the selection inside the list when cyclic
\* mode is off; with cyclic mode on and a step of exactly 1 it wraps (down from the
\* last record to 0, up from record 0 to the last); any other step clamps.
C3_SelectionClamp ==
    [][\A o \in PaneObjs :
         (last'.op \in {"scroll_down", "scroll_up"} /\ last'.pane = o /\ InList(panes[o])) =>
            LET sel == panes[o].selected_file_index
                new == panes'[o].selected_file_index
                fc == file_count(panes[o])
                down == last'.op = "scroll_down"
                wrap == config.cycle /\ ~last'.edge /\ last'.step = 1
            IN  /\ ~config.cycle => InList(panes'[o])
                /\ (wrap /\ down) => new = (IF sel = fc - 1 THEN 0 ELSE sel + 1)
                /\ (wrap /\ ~down) => new = (IF sel = 0 THEN fc - 1 ELSE sel - 1)
                /\ (~wrap /\ down) =>
                      new = (IF last'.edge THEN fc - 1 ELSE Min(sel + last'.step, fc - 1))
                /\ (~wrap /\ ~down) =>
                      new = (IF last'.edge \/ sel - last'.step < 0 THEN 0 ELSE sel - last'.step)
      ]_vars

\* C3 witness: a cyclic scroll_up by one has just wrapped to the last of several records
C3_Witness ==
    /\ last.op = "scroll_up" /\ config.cycle /\ ~last.edge /\ last.step = 1
    /\ file_count(panes["P1"]) >= 3
    /\ panes["P1"].selected_file_index = file_count(panes["P1"]) - 1

\* the writes that are the last write of their key, and those of them that a map
\* holding the n most recently written keys keeps
LastWrites(w) == {i \in DOMAIN w : \A j \in DOMAIN w : j > i => w[j].key # w[i].key}
KeptWrites(w, n) == {i \in LastWrites(w) : Cardinality({j \in LastWrites(w) : j > i}) < n}
WrittenKeys(w) == [i \in DOMAIN w |-> w[i].key]

\* C6 (bounded LRU-by-write map): after any sequence of writes and reads the
\* directory holds at most its size limit of entries, namely the most recently
\* written keys with their last written values, ordered by their last write; reads
\* change nothing (limit 2: /a,/b,/c leaves {/b,/c} and /a,/b,/a,/c leaves {/a,/c}).
C6_BoundedLruByWrite ==
    LET kept == KeptWrites(writes, SizeLimit)
    IN  /\ Len(directory) <= SizeLimit
        /\ Len(directory) = Cardinality(kept)
        /\ \A i \in kept : directory[Cardinality({j \in kept : j <= i})] = writes[i]
        /\ (SizeLimit = 2 /\ WrittenKeys(writes) = <<"/a", "/b", "/c">>)
              => DirKeys(directory) = {"/b", "/c"}
        /\ (SizeLimit = 2 /\ WrittenKeys(writes) = <<"/a", "/b", "/a", "/c">>)
              => DirKeys(directory) = {"/a", "/c"}

\* C6 witness: limit 2, /a,/b,/a,/c written, then a read of the evicted /b
C6_Witness ==
    /\ SizeLimit = 2
    /\ WrittenKeys(writes) = <<"/a", "/b", "/a", "/c">>
    /\ DirKeys(directory) = {"/a", "/c"}
    /\ last.op = "dir_get" /\ last.key = "/b" /\ last.result = 0

\* the fields App.pane_swap may write, with the left/right assignment of the panes
SwapFrame(a, ps) ==
    <<a.current_focus, a.previous_focus, a.filepane_focus, a.layout_mode, a.kb_mode,
      a.left_pane, a.right_pane, [o \in PaneObjs |-> ps[o].id]>>

\* C10: Pane-swap no-op.  pane_swap(direction, layout) changes neither focus,
\* previous focus, file-pane focus, layout nor the left/right pane assignment
\* when the layout is single, or the focus is right with direction right/down
\* and the layout already is the target, or the focus is left with direction
\* left/up and the layout already is the target.
C10_PaneSwapNoOp ==
    [][( /\ last'.op = "pane_swap"
         /\ \/ app.layout_mode = "single"
            \/ /\ app.current_focus = "right" /\ last'.direction \in {"right", "down"}
               /\ app.layout_mode = last'.layout
            \/ /\ app.current_focus = "left" /\ last'.direction \in {"left", "up"}
               /\ app.layout_mode = last'.layout )
       => SwapFrame(app, panes)' = SwapFrame(app, panes)]_vars

\* C10 witness: pane_swap(down, horizontal) has run with the focus on the right
\* pane of a horizontal layout whose panes were swapped before
C10_Witness ==
    /\ last.op = "pane_swap" /\ last.direction = "down" /\ last.layout = "horizontal"
    /\ app.current_focus = "right" /\ app.layout_mode = "horizontal"
    /\ app.left_pane = "P2"

\* a key step whose handler ran its bound function
KeyRan == last'.op = "key" /\ last'.ran

ScrollActions == {"pane_scroll_down", "pane_scroll_up"}

\* C7: Multiplier consumption.  With dispatch activated: a digit key never
\* leaves the multiplier None; a scroll action pressed after digits of decimal
\* value N >= 1 (no other action in between) is invoked with count N, one
\* pressed without digits with count 1; and the multiplier is None right after
\* the scroll action has run.
C7_MultiplierConsumption ==
    [][KeyRan =>
          /\ last'.matched[1].raw => kb'.action_multiplier # None
          /\ last'.matched[1].action \in ScrollActions =>
                /\ (typed # None /\ typed[1] >= 1) => last'.call[1].value = typed[1]
                /\ typed = None => last'.call[1].value = 1
                /\ kb'.action_multiplier = None]_vars

\* C8: Mode-scoped dispatch.  The function a key event runs belongs to a
\* binding of the mode that is active at dispatch; in command and error mode
\* no normal-mode action has its effect (the application does not exit, the
\* layout, the panes and the multiplier stay), and in normal mode "c-c" exits
\* the application instead of running the command- or error-mode action.
C8_ModeScopedDispatch ==
    [][KeyRan =>
          /\ last'.matched[1].mode = app.kb_mode
          /\ app.kb_mode \in {"command", "error"} =>
                /\ app'.exited = app.exited /\ app'.layout_mode = app.layout_mode
                /\ panes' = panes /\ last'.call = None
                /\ ~last'.matched[1].raw
          /\ (app.kb_mode = "command" /\ last'.keys = "c-c") => app' = cmd_exit(app)
          /\ (app.kb_mode = "error" /\ last'.keys = "c-c") => app' = set_error(app, None)
          /\ (app.kb_mode = "normal" /\ last'.keys = "c-c") => app' = exit(app)]_vars

\* C8 witness: "c-c", bound in all three modes, was pressed in command mode and
\* has run the command-mode action (the application has not exited)
C8_Witness ==
    /\ last.op = "key" /\ last.keys = "c-c" /\ last.ran
    /\ last.matched[1].mode = "command"
    /\ ~app.exited /\ app.kb_mode = "normal"

\* C9: Activation gate.  The switch is false at construction; while it is
\* false a key event runs no bound function and changes neither the
\* multiplier nor app or pane state; only the render task sets it.
C9_ActivationGate ==
    /\ ~kb.activated
    /\ [][/\ (last'.op = "key" /\ ~kb.activated) =>
                /\ ~last'.ran /\ last'.call = None
                /\ kb' = kb /\ app' = app /\ panes' = panes
          /\ (~kb.activated /\ kb'.activated) => last'.op = "render_task"
          /\ kb.activated => kb'.activated]_vars

\* C9 witness: a key with a binding in the active mode was pressed before the
\* activation and nothing ran
C9_Witness ==
    /\ last.op = "key" /\ last.matched # None /\ ~last.ran
    /\ ~kb.activated /\ last.keys = "j"

\* pane_swap(direction, layout) called in app state a returns early
SwapNoOp(a, direction, layout) ==
    \/ a.layout_mode = "single"
    \/ a.current_focus = "right" /\ direction \in {"right", "down"} /\ a.layout_mode = layout
    \/ a.current_focus = "left" /\ direction \in {"left", "up"} /\ a.layout_mode = layout

\* the side a direction points to
SideOf(direction) == IF direction \in {"right", "down"} THEN "right" ELSE "left"

\* the pane objects without their position labels
Unlabelled(ps) == [o \in PaneObjs |-> [ps[o] EXCEPT !.id = "left"]]

\* the effect C11 states for a pane_swap that is not a no-op, called with the
\* focus on a data pane
SwapEffect ==
    /\ app'.layout_mode = last'.layout
    /\ (app'.left_pane # app.left_pane) <=> (app.current_focus # SideOf(last'.direction))
    /\ {app'.left_pane, app'.right_pane} = PaneObjs
    /\ app'.current_focus = SideOf(last'.direction)
    /\ filepanes(app')[app'.current_focus] = filepanes(app)[app.current_focus]
    /\ current_filepane(app') = current_filepane(app)
    /\ Unlabelled(panes') = Unlabelled(panes)
    /\ panes'[app'.left_pane].id = "left" /\ panes'[app'.right_pane].id = "right"

\* C11: Pane-swap effect.  A pane_swap(direction, layout) that is not a no-op,
\* called with the focus on a data pane, makes layout the layout; the panes
\* exchange positions exactly when the focused pane is not on the side the
\* direction points to; afterwards the focus is on that side and on the same
\* pane object (file list, selection, mode) as before.
C11_PaneSwapEffect ==
    [][( /\ last'.op = "pane_swap"
         /\ app.current_focus \in {"left", "right"}
         /\ ~SwapNoOp(app, last'.direction, last'.layout) )
       => SwapEffect]_vars

\* the pane a key-bound function hands to App.pane_focus; "none" when the
\* function does not call it
FocusTarget(a, action, mode) ==
    CASE action = "cmd_focus" -> "cmd"
      [] action = "exit" /\ mode = "command" ->
            IF a.previous_focus = "None" THEN "left" ELSE a.previous_focus
      [] action = "pane_focus" /\ a.layout_mode # "single" ->
            IF a.current_focus = "right" THEN "left" ELSE "right"
      [] OTHER -> "none"

FocusBookkeeping ==
    /\ app.current_focus \in {"left", "right", "cmd"}
    /\ app.filepane_focus \in {"left", "right"}
    /\ app.current_focus \in {"left", "right"} => app.filepane_focus = app.current_focus

\* C12: Focus bookkeeping.  A key-bound call of pane_focus(target) makes the
\* former focus the previous focus and target the focus, and moves the
\* last-data-pane cursor only when target is left or right; in every state
\* reached through key dispatch the focus is left, right or cmd, the
\* last-data-pane cursor is left or right, and the cursor equals the focus
\* whenever the focus is a data pane.
C12_FocusBookkeeping ==
    /\ []FocusBookkeeping
    /\ [][(KeyRan /\ FocusTarget(app, last'.matched[1].action, last'.matched[1].mode) # "none") =>
            LET target == FocusTarget(app, last'.matched[1].action, last'.matched[1].mode)
            IN  /\ app'.previous_focus = app.current_focus
                /\ app'.current_focus = target
                /\ app'.filepane_focus =
                      IF target \in {"left", "right"} THEN target ELSE app.filepane_focus]_vars

\* C12 witness: the focus key has moved the focus from the left pane to the
\* right pane, and the cursor went with it
C12_Witness ==
    /\ last.op = "key" /\ last.ran /\ last.matched[1].action = "pane_focus"
    /\ app.previous_focus = "left" /\ app.current_focus = "right"
    /\ app.filepane_focus = "right"

\* C13: Command exit.  Whenever the command region has the focus, the
\* command-mode exit key hands the focus back to the data pane that had it
\* when the command region was entered (the last-data-pane cursor), so the
\* focus is then a data pane and the dispatch mode is normal.
C13_CommandExit ==
    [][( /\ KeyRan /\ last'.matched[1].action = "exit" /\ last'.matched[1].mode = "command"
         /\ app.current_focus = "cmd" ) =>
            /\ app'.current_focus \in {"left", "right"}
            /\ app'.current_focus = app.filepane_focus
            /\ app'.kb_mode = "normal"]_vars

\* C14: DispatchMode/focus consistency.  The dispatch mode is one of normal,
\* command and error and, while no error is displayed, it is normal exactly
\* when the focus is a data pane and command exactly when the focus is the
\* command region; the state after dismissing an error that arrived while
\* the command region had the focus is one of these states.
C14_ModeFocusConsistency ==
    /\ app.kb_mode \in {"normal", "command", "error"}
    /\ app.kb_mode # "error" =>
          /\ app.kb_mode = "normal" <=> app.current_focus \in {"left", "right"}
          /\ app.kb_mode = "command" <=> app.current_focus = "cmd"

ErrorKeyRan == KeyRan /\ last'.matched[1].mode = "error"

ContainerTypes == {"dir", "bucket", "dir_link"}

\* C16: enter() dispatch by kind.  forward hands the selected record's name
\* to the cd of the pane's data source exactly when the current selection is
\* a directory, a bucket or a symlink to a directory, and a successful cd
\* replaces the file list by the listing of the new path; with any other
\* selection, or none, cd is not called and path and file list are unchanged.
C16_EnterDispatchByKind ==
    [][\A o \in PaneObjs :
          (last'.op = "forward" /\ last'.pane = o) =>
            LET cs == current_selection(panes[o])
                container == cs # None /\ cs[1].type \in ContainerTypes
            IN  /\ container <=> last'.cd # None
                /\ container => last'.cd = Some(cs[1].name)
                /\ (container /\ ~last'.notified /\ ~last'.raised) =>
                      panes'[o].files = get_paths(panes'[o])
                /\ ~container =>
                      /\ PanePath(panes'[o]) = PanePath(panes[o])
                      /\ panes'[o].files = panes[o].files]_vars

\* C17: enter() failure recovery.  When the cd of forward raised (forward
\* reported a notification) and forward has finished, in local mode and in
\* object-store mode alike, the pane's path is the path it had before and
\* its file list is the listing of that path.
C17_EnterFailureRecovery ==
    [][\A o \in PaneObjs :
          (last'.op = "forward" /\ last'.pane = o /\ last'.notified /\ ~last'.raised) =>
             /\ PanePath(panes'[o]) = PanePath(panes[o])
             /\ panes'[o].files = get_paths(panes[o])]_vars

DataSourceOps == {"load_data", "forward", "backword", "pane_switch_mode"}

\* C18: No data-source exception escapes.  No load_data, forward, backword
\* or pane_switch_mode ends by raising: an exception of the data source is
\* caught inside the operation and reported as a notification.
C18_NoEscape ==
    [][last'.op \in DataSourceOps => ~last'.raised]_vars

\* the root of a pane's data source: the file system root, the bucket list
RootPath(f) == IF f.mode = "s3" THEN S3Root ELSE FsRoot

\* C19: load() failure.  When the listing of the pane's path fails, load_data
\* leaves the path of the pane's mode at the root, reports a notification
\* (the dispatch mode is error), lists the root instead and ends with the
\* pane loaded and its loading flag cleared.
C19_LoadFailure ==
    [][\A o \in PaneObjs :
          (last'.op = "load_done" /\ last'.pane = o /\ last'.notified) =>
             /\ PanePath(panes'[o]) = RootPath(panes[o])
             /\ panes'[o].mode = panes[o].mode
             /\ app'.kb_mode = "error"
             /\ panes'[o].files = get_paths(WithPath(panes[o], RootPath(panes[o])))
             /\ ~last'.raised
             /\ panes'[o].loaded /\ ~panes'[o].loading]_vars

\* the records of f.files that are not hidden and lie nearest to position k
\* (counted from 0) on either side of it
NearestVisible(f, k) ==
    LET vis == {i \in 0 .. (Len(f.files) - 1) : ~f.files[i + 1].hidden}
        below == {i \in vis : i > k}
        above == {i \in vis : i < k}
    IN  {f.files[i + 1] : i \in {j \in below : \A m \in below : j <= m}
                                \cup {j \in above : \A m \in above : j >= m}}

\* C20: Hidden-file shift.  After pane_toggle_hidden_files has turned hiding
\* on for a pane whose selection was inside its list, the selection is a
\* position of the visible list whenever that list is not empty and the record
\* there is not hidden; when the record selected before became hidden, the
\* record selected now is the nearest visible record after or before it.
C20_HiddenFileShift ==
    [][\A o \in PaneObjs :
          ( /\ last'.op = "pane_toggle_hidden_files" /\ last'.pane = o
            /\ panes[o].display_hidden /\ ~panes'[o].display_hidden
            /\ InList(panes[o]) /\ file_count(panes'[o]) > 0 ) =>
             /\ InList(panes'[o])
             /\ ~panes'[o].filtered_files[panes'[o].selected_file_index + 1].hidden
             /\ panes[o].filtered_files[panes[o].selected_file_index + 1].hidden =>
                   panes'[o].filtered_files[panes'[o].selected_file_index + 1]
                      \in NearestVisible(panes[o], panes[o].selected_file_index)]_vars

\* C21: toggle_hidden flag semantics.  pane_toggle_hidden_files without a
\* value flips the flag, with a value it leaves the flag at that value
\* whatever it was; afterwards the visible list is the raw list when the flag
\* shows hidden files and the raw list without its hidden records, in the
\* same order, when it hides them.
C21_ToggleHiddenFlag ==
    [][\A o \in PaneObjs :
          (last'.op = "pane_toggle_hidden_files" /\ last'.pane = o) =>
             /\ last'.value = None => panes'[o].display_hidden = ~panes[o].display_hidden
             /\ last'.value # None => panes'[o].display_hidden = last'.value[1]
             /\ panes'[o].files = panes[o].files
             /\ panes'[o].filtered_files =
                   IF panes'[o].display_hidden THEN panes'[o].files
                   ELSE SelectSeq(panes'[o].files, LAMBDA x : ~x.hidden)]_vars

\* the record under the cursor of a pane whose selection is inside its list
Highlighted(f) == f.filtered_files[f.selected_file_index + 1]

\* C22: filter() preserves the selected record.  When the record under the
\* cursor is still visible after the hidden flag changed in either direction,
\* the cursor is on the same underlying record (same index, same name) as
\* before, not merely on the same position of the visible list.
C22_FilterPreservesRecord ==
    [][\A o \in PaneObjs :
          ( /\ last'.op = "pane_toggle_hidden_files" /\ last'.pane = o
            /\ InList(panes[o])
            /\ (panes'[o].display_hidden \/ ~Highlighted(panes[o]).hidden) ) =>
             /\ InList(panes'[o])
             /\ Highlighted(panes'[o]).index = Highlighted(panes[o]).index
             /\ Highlighted(panes'[o]).name = Highlighted(panes[o]).name]_vars

\* the search tasks that are pending or running and not cancelled
ActiveSearches == {i \in DOMAIN cmd.tasks : ~Task_done(cmd.tasks[i]) /\ ~cmd.tasks[i].cancel}

\* C23: Search cancel-on-supersede.  At most one search task is pending or
\* running without being cancelled; once every task has ended and the task
\* of the most recently issued search text was not cancelled, the match set
\* of the searched pane is the one of that text (none for the empty text).
C23_SearchSupersede ==
    /\ Cardinality(ActiveSearches) <= 1
    /\ ( /\ cmd.task # 0
         /\ \A i \in DOMAIN cmd.tasks : Task_done(cmd.tasks[i])
         /\ cmd.tasks[cmd.task].stage = "done" ) =>
            LET t == cmd.tasks[cmd.task]
            IN  panes[t.pane].searched_indices = search_text(panes[t.pane], t.text).searched_indices

\* C23 witness: "b" and then "k" were issued; the search of "b" was cancelled
\* in its sleep and the pane holds the match set of "k"
C23_Witness ==
    /\ Len(cmd.tasks) = 2 /\ cmd.task = 2
    /\ cmd.tasks[1].text = "b" /\ cmd.tasks[1].stage = "cancelled"
    /\ cmd.tasks[2].text = "k" /\ cmd.tasks[2].stage = "done"
    /\ panes["P1"].searched_indices = Some((0 :> {1}))

\* C24: Last completed load wins.  When a load_data, forward or backword of
\* a pane completes, also while another listing operation of that pane is
\* or was in flight, the pane's file list is the listing that the completing
\* operation obtained, and nothing else.
C24_LastCompletedWins ==
    [][\A o \in PaneObjs :
          (last'.op = "flight_end" /\ last'.pane = o) => panes'[o].files = last'.result]_vars

\* the start() tasks of pane o that are inside the spinner loop
Spinning(o) == {i \in DOMAIN spinners[o].tasks : spinners[o].tasks[i] = "loop"}

ReturnsHome(o) ==
    /\ last'.op \in NavOps /\ last'.pane = o
    /\ ~last'.raised /\ ~last'.notified
    /\ trip # None /\ ~trip[1].done /\ trip[1].pane = o
    /\ PanePath(panes[o]) = trip[1].into
    /\ PanePath(panes'[o]) = trip[1].from

\* C26 as claimed: Cross-pane history safety.  With a history that is never
\* full, whatever the other pane navigates in between, a pane that returns
\* to the directory it left gets the selection index it had when it left.
C26_CrossPaneSafety ==
    [][\A o \in PaneObjs :
          (ReturnsHome(o) /\ SizeLimit > MaxPaneNavs)
             => panes'[o].selected_file_index = trip[1].index]_vars

\* C26 as amended: the index is restored provided the other pane has not
\* navigated out of (or re-listed) that same directory in between and the
\* entry is not evicted by the capacity bound.
C26_CrossPaneSafetyAmended ==
    [][\A o \in PaneObjs :
          ( /\ ReturnsHome(o) /\ ~trip[1].foreign
            /\ trip[1].from \in DirKeys(directory') )
             => panes'[o].selected_file_index = trip[1].index]_vars

\* C26 witness: the left pane left the bucket list on index 1, the right
\* pane then navigated in the local file system, and the left pane is back
\* on index 1
C26_Witness ==
    /\ last.op \in NavOps /\ last.pane = "P1"
    /\ trip # None /\ trip[1].done /\ trip[1].pane = "P1" /\ ~trip[1].foreign
    /\ trip[1].index = 1 /\ panes["P1"].selected_file_index = 1
    /\ PanePath(panes["P1"]) = trip[1].from
    /\ panes["P2"].mode = "fs" /\ panes["P2"].fs_path # FsCwd


\* C27 (Record index back-reference): in every listing an adapter produced,
\* the record at position i (from 0) of a pane's unfiltered listing has
\* index = i, so the lookup files[index] returns the record under the cursor.
C27_IndexBackReference ==
    \A o \in PaneObjs :
        \A i \in DOMAIN panes[o].files : panes[o].files[i].index = i - 1


\* the built-in action names of a mode: the fixed table of KBConfig.__init__
BuiltinNames(mode) == DOMAIN KBConfig__kb_maps[mode]

\* C28 (Configuration error): map and unmap called with a string action name
\* raise ClientError exactly when the name is not a built-in action name of
\* that mode, whatever was mapped or unmapped before.
C28_ConfigurationError ==
    (last.op \in {"map", "unmap"} /\ IsStr(last.action))
        => (last.raised <=> last.action \notin BuiltinNames(last.mode))


\* the value a lookup leaves for a saved value: itself when recognized, else the default
Healed(value, known, default) == IF value \in known THEN value ELSE default

\* C29 (Self-healing of invalid values): when the saved focus, layout or pane
\* mode is unrecognized, the start-up does not fail: the first lookup leaves
\* focus left, layout vertical and mode fs, a warning is set, and the
\* application ends in normal mode with the keys activated; the focus,
\* layout and modes stay recognized from then on.
C29_SelfHealing ==
    /\ kb.activated =>
          /\ app.current_focus \in Pane
          /\ app.layout_mode \in LayoutMode
          /\ \A o \in PaneObjs : panes[o].mode \in PaneMode
    /\ last.op = "render_task" =>
          LET s == last.saved
              bad == \/ s.focus \notin Pane \/ s.layout \notin LayoutMode
                     \/ s.left_mode \notin PaneMode \/ s.right_mode \notin PaneMode
          IN  /\ app.current_focus = Healed(s.focus, Pane, "left")
              /\ app.layout_mode = Healed(s.layout, LayoutMode, "vertical")
              /\ panes[app.left_pane].mode = Healed(s.left_mode, PaneMode, "fs")
              /\ panes[app.right_pane].mode = Healed(s.right_mode, PaneMode, "fs")
              /\ bad => (app.error_type = "WARNING" /\ app.error # "")
              /\ app.kb_mode = "normal"

\* the start-up found an unrecognized focus, layout and mode saved and healed all three
C29_Witness ==
    /\ last.op = "render_task"
    /\ last.saved.focus = Unrecognized
    /\ last.saved.layout = Unrecognized
    /\ last.saved.left_mode = Unrecognized
    /\ app.current_focus = "left" /\ app.layout_mode = "vertical"
    /\ panes[app.left_pane].mode = "fs"
    /\ app.error_type = "WARNING"


\* the other data pane
OtherPane(pane) == IF pane = "right" THEN "left" ELSE "right"

\* C30 (focus_other_data_pane): with a data pane focused, in the vertical or
\* horizontal layout pane_focus_other moves the focus and the last-data-pane
\* cursor to the other data pane and a second call brings both back; in the
\* single layout it changes neither the focus, the previous focus nor the
\* last-data-pane cursor.
C30_FocusOther ==
    [][(last'.op = "pane_focus_other" /\ app.current_focus \in {"left", "right"}) =>
          IF app.layout_mode \in {"vertical", "horizontal"}
          THEN /\ app'.current_focus = OtherPane(app.current_focus)
               /\ app'.filepane_focus = app'.current_focus
               /\ app'.previous_focus = app.current_focus
               /\ pane_focus_other(app').current_focus = app.current_focus
               /\ pane_focus_other(app').filepane_focus = app.current_focus
          ELSE /\ app'.current_focus = app.current_focus
               /\ app'.previous_focus = app.previous_focus
               /\ app'.filepane_focus = app.filepane_focus]_vars

\* C30 witness: pane_focus_other was called in the single layout with the
\* right pane focused after a move from left to right, and left all in place
C30_Witness ==
    /\ last.op = "pane_focus_other"
    /\ app.layout_mode = "single"
    /\ app.current_focus = "right" /\ app.previous_focus = "left"
    /\ app.filepane_focus = "right"


\* the window of f contains its selection and lies within the list
WindowHolds(f) ==
    /\ 0 <= f.first_line /\ f.first_line <= f.selected_file_index
    /\ f.selected_file_index < f.last_line /\ f.last_line <= file_count(f)

\* f with its selection and window moved by delta
Shifted(f, delta) ==
    [f EXCEPT !.first_line = @ + delta, !.last_line = @ + delta,
              !.selected_file_index = @ + delta]

\* C31 (page_shift lockstep): page_down(n) / page_up(n) on a non-empty list
\* with the selection inside it move first_line, last_line and the selection
\* by n (down) or -n (up) when the moved selection stays in the list, and
\* otherwise only clamp the selection to the last record (down) or record 0
\* (up); the selection stays in the list, and the next viewport recompute
\* gives a window that contains the selection and lies within the list.
C31_PageShiftLockstep ==
    [][\A o \in PaneObjs :
        (last'.op \in {"page_up", "page_down"} /\ last'.pane = o /\ InList(panes[o])) =>
            LET f == panes[o]
                g == panes'[o]
                down == last'.op = "page_down"
                delta == IF down THEN last'.value ELSE 0 - last'.value
                inside == /\ f.selected_file_index + delta >= 0
                          /\ f.selected_file_index + delta <= file_count(f) - 1
            IN  /\ g = IF inside THEN Shifted(f, delta)
                       ELSE [f EXCEPT !.selected_file_index =
                                          IF down THEN file_count(f) - 1 ELSE 0]
                /\ InList(g)
                /\ WindowHolds(_get_formatted_files(g, _get_height(g.id, app'.layout_mode, term_rows')))]_vars


\* the key-bound actions that take a repeat count
RepeatActions == ScrollActions \cup {"pane_page_up", "pane_page_down"}

\* C32 (Multiplier applies to every repeat-capable action): when the
\* multiplier is N >= 1 at dispatch, a key-bound scroll_up, scroll_down,
\* page_up or page_down is called with count N, and the multiplier is
\* cleared after that one call.
C32_MultiplierEveryRepeatAction ==
    [][(/\ KeyRan /\ last'.matched[1].action \in RepeatActions
        /\ kb.action_multiplier # None /\ kb.action_multiplier[1] >= 1) =>
            /\ last'.call # None
            /\ last'.call[1].value = kb.action_multiplier[1]
            /\ kb'.action_multiplier = None]_vars


\* C33 (Activation after initial load), as claimed: a bound action runs only
\* when the initial load of both panes has completed.
C33_ActivationAfterLoad ==
    (last.op = "key" /\ last.ran) => app.load_tasks = {}

\* C33 as amended: the dispatch table is activated only by the render task,
\* in the step that has applied the saved focus and layout and starts the
\* two initial loads, so no bound action runs before the history is
\* applied; both loads are still in flight when it is activated.
C33_ActivationAfterHistory ==
    [][/\ (~kb.activated /\ kb'.activated) =>
            /\ last'.op = "render_task"
            /\ app'.filepane_focus = last'.saved.focus
            /\ app'.layout_mode = last'.saved.layout
            /\ app'.load_tasks = {app.left_pane, app.right_pane}
            /\ \A o \in PaneObjs : ~panes'[o].loaded
       /\ KeyRan => kb.activated]_vars

\* C33 witness: a bound action has run while both initial loads were in flight
C33_Witness ==
    /\ last.op = "key" /\ last.ran /\ last.call # None
    /\ app.load_tasks = {app.left_pane, app.right_pane}
    /\ \A o \in PaneObjs : ~panes[o].loaded


\* the window of f has the size min(file_count, height)
WindowSized(f, height) == f.last_line - f.first_line = Min(file_count(f), height)

\* C34 (Incremental viewport): a viewport recompute that finds the window
\* of size min(file_count, available height), within the list and
\* containing the selection leaves first_line and last_line unchanged.
C34_IncrementalViewport ==
    [][\A o \in PaneObjs :
        (/\ last'.op = "render" /\ last'.pane = o
         /\ WindowSized(panes[o], Height(o)) /\ WindowHolds(panes[o])) =>
            /\ panes'[o].first_line = panes[o].first_line
            /\ panes'[o].last_line = panes[o].last_line]_vars

\* C34 witness: a recompute has left a window that starts after record 0 and
\* holds the selection strictly between its first and last row
C34_Witness ==
    /\ last.op = "render" /\ last.pane = "P1"
    /\ WindowSized(panes["P1"], Height("P1")) /\ WindowHolds(panes["P1"])
    /\ panes["P1"].first_line > 0
    /\ panes["P1"].first_line < panes["P1"].selected_file_index
    /\ panes["P1"].selected_file_index < panes["P1"].last_line - 1


\* C35 (Loading indicator lifecycle): every load, enter or leave of a pane
\* keeps the pane's loading flag set while it is in flight, and each
\* load, enter, leave and filter operation leaves the flag clear when it
\* finishes.
C35_LoadingLifecycle ==
    /\ [](\A i \in DOMAIN flights : panes[flights[i].pane].loading)
    /\ [][\A o \in PaneObjs :
            (last'.op \in {"flight_end", "pane_toggle_hidden_files"} /\ last'.pane = o)
                => ~panes'[o].loading]_vars


\* the operations of pane o that are in flight
InFlight(o) == {i \in DOMAIN flights : flights[i].pane = o}

\* C36 (Path/listing agreement at quiescence): when a load, enter or leave of
\* a pane completes and leaves no operation of that pane in flight, the
\* pane's file list is the listing of the pane's current path in its
\* current mode, whatever the order in which overlapping operations were
\* issued and completed.
C36_PathListingAgreement ==
    [][\A o \in PaneObjs :
          (last'.op = "flight_end" /\ last'.pane = o /\ InFlight(o)' = {})
              => panes'[o].files = get_paths(panes'[o])]_vars


\* C37 (Loading flag covers all in-flight work): whenever at least one load,
\* enter or leave of a pane is in flight, that pane's loading flag is true.
C37_LoadingCoversInFlight ==
    \A o \in PaneObjs : InFlight(o) # {} => panes[o].loading


\* C38 (Multiplier survives in-flight actions): a scroll action pressed after
\* digits of decimal value N >= 1, with no action dispatched after those
\* digits, is invoked with count N, also when the digits were typed while an
\* enter or leave dispatched earlier was still in flight.
C38_MultiplierSurvivesInFlight ==
    [][(/\ KeyRan /\ last'.matched[1].action \in ScrollActions
        /\ typed # None /\ typed[1] >= 1) =>
            (last'.call # None /\ last'.call[1].value = typed[1])]_vars


\* C39 (No-op navigation leaves other history entries alone): a forward or
\* backword that leaves the pane's path unchanged keeps every entry of the
\* directory history that belongs to another path, with the index it held.
C39_NoOpNavigationKeepsEntries ==
    [][\A o \in PaneObjs :
          (/\ last'.op \in NavOps /\ last'.pane = o
           /\ PanePath(panes'[o]) = PanePath(panes[o])) =>
            \A key \in DirKeys(directory) \ {PanePath(panes[o])} :
                /\ key \in DirKeys(directory')
                /\ Directory_get(directory', key, 0) = Directory_get(directory, key, 0)]_vars


\* C40 (Scrolling an empty list is safe): a scroll_up or scroll_down of a
\* pane whose file list is empty, in every variant (by count, by half a
\* page, to the edge, cyclic mode on or off), raises nothing and leaves the
\* selection index at 0 or above.
C40_EmptyListScrollSafe ==
    [][\A o \in PaneObjs :
          (/\ last'.op \in {"scroll_down", "scroll_up"} /\ last'.pane = o
           /\ file_count(panes[o]) = 0) =>
            /\ ~last'.raised
            /\ panes'[o].selected_file_index >= 0]_vars

====
